---- MODULE Spec2Model ----
(***************************************************************************)
(* Model of the annotation cropping engine (ImageAnnotationCropper,        *)
(* src/src/condition_report_service.py) and of the API client (T2D2,       *)
(* src/src/t2d2_sdk.py): its request method, its current project and the   *)
(* operations that need one.                                               *)
(*                                                                         *)
(* Numbers.  Pixel values are integers.  A normalized coordinate is a      *)
(* Python float; it is modelled as an exact rational [n, d] (d > 0), and   *)
(* padding_percent as a whole number of hundredths.  Products are exact,   *)
(* int() truncates toward zero and // floors, as in Python.                *)
(*                                                                         *)
(* Values.  None is the empty tuple where a tuple is expected (a bounding  *)
(* box) and NoneImage where an image is expected.  A points list is a      *)
(* sequence of items, each a scalar [list |-> FALSE, v |-> r] or a nested  *)
(* list [list |-> TRUE, vs |-> <<r1, ...>>].                               *)
(***************************************************************************)
EXTENDS Integers, Sequences, FiniteSets, TLC

VARIABLES
    annotation,      \* the annotation record (a dict) passed to the engine
    image,           \* the source image passed to crop / draw
    image_width,     \* declared image width
    image_height,    \* declared image height
    padding_percent, \* context padding, in hundredths
    min_size,        \* minimum crop size passed to expand_bbox
    bbox,            \* the box passed to expand_bbox
    crop_bbox,       \* the bbox argument of draw_annotation_on_image, or None
    pil_strict,      \* TRUE iff the installed Pillow rejects unordered corners
    image_data_list, \* self.image_data_list: the image records of the cropper
    images,          \* self.images: the (record, image or None) pairs stored
    fetched,         \* how each fetch of the last download ended
    output_path,     \* the output_path argument of create_visualization
    written,         \* the crop files written by the last download or bulk call
    panels,          \* the panel files written by the last download or bulk call
    project,         \* T2D2.project: the current project record, {} when none
    s3_base_url,     \* T2D2.s3_base_url, UnsetUrl until a project gives one
    aws_region,      \* T2D2.aws_region, "unset" until a project gives one
    bucket,          \* T2D2.bucket, "unset" until a project gives one
    sent,            \* the HTTP requests the last client call sent, in order
    error,           \* the exception the last client call raised, or NoError
    call,            \* the arguments of the last client call and the answers
                     \* its requests met
    op,              \* the method called last ("none" before any call)
    raised,          \* TRUE iff that call let an exception reach its caller
    ret              \* the value that call returned

vars == <<annotation, image, image_width, image_height, padding_percent,
          min_size, bbox, crop_bbox, pil_strict, image_data_list, images,
          fetched, output_path, written, panels, project, s3_base_url,
          aws_region, bucket, sent, error, call, op, raised, ret>>

\* the arguments other than the image
arguments == <<annotation, image_width, image_height, padding_percent,
               min_size, bbox, crop_bbox>>

inputs == <<image, arguments>>

\* the cropper's own state and the files it has written
cropper == <<image_data_list, images, fetched, output_path, written, panels>>

\* the fields of the API client that a project sets
settings == <<project, s3_base_url, aws_region, bucket>>

\* the API client and what its last call did
client == <<settings, sent, error, call>>

-----------------------------------------------------------------------------
(* Bounds of the model *)

MaxLen == 4          \* longest flattened points list drawn by InitPoints

MaxImages == 3       \* longest image record list given to a cropper

MaxStored == 4       \* download_images is called while self.images stays this short

MaxPathLen == 4      \* longest output path drawn by InitPath, in characters

-----------------------------------------------------------------------------
(* Values *)

None == <<>>

\* An image is an object (obj) holding pixels: the region of the source they
\* were cropped from (None: the whole source) and the primitives drawn on top.
\* mode is its Pillow mode: "RGB", or "RGBA" when the file has an alpha channel.
NoneImage ==
    [isNone |-> TRUE, obj |-> 0, region |-> None, drawn |-> <<>>, mode |-> "none"]

\* the caller's decoded image: object 1, nothing drawn on it
SrcImage ==
    [isNone |-> FALSE, obj |-> 1, region |-> None, drawn |-> <<>>, mode |-> "RGB"]

\* Image.copy(): a new object with the same pixels
ImageCopy(img) == [img EXCEPT !.obj = 2 * @]

\* Image.crop(box): a new object holding the pixels of box
ImageCrop(img, box) == [img EXCEPT !.obj = 2 * @ + 1, !.region = box]

\* Image.size of a crop
CropSize(img) == <<img.region[3] - img.region[1], img.region[4] - img.region[2]>>

\* the outcome of a block of code: a value, or an exception on its way up
Value(v) == [exc |-> FALSE, value |-> v]

Raise == [exc |-> TRUE, value |-> None]

\* a local variable: body applied to the value of v, which is computed once
With(v, body(_)) == CHOOSE r \in {body(x) : x \in {v}} : TRUE

Rat(n, d) == [n |-> n, d |-> d]

Scalar(r) == [list |-> FALSE, v |-> r, vs |-> <<>>]

Nested(rs) == [list |-> TRUE, v |-> Rat(0, 1), vs |-> rs]

-----------------------------------------------------------------------------
(* Python arithmetic *)

\* a < b on floats
RatLess(a, b) == a.n * b.d < b.n * a.d

\* min(a, b): b only when b < a
PyMin(a, b) == IF RatLess(b, a) THEN b ELSE a

\* max(a, b): b only when b > a
PyMax(a, b) == IF RatLess(a, b) THEN b ELSE a

\* int(n / d): truncation toward zero
IntTrunc(n, d) == IF n >= 0 THEN n \div d ELSE -((-n) \div d)

IntMin(a, b) == IF b < a THEN b ELSE a

IntMax(a, b) == IF b > a THEN b ELSE a

RECURSIVE SeqMin(_)
SeqMin(s) == IF Len(s) = 1 THEN s[1] ELSE IntMin(s[1], SeqMin(Tail(s)))

RECURSIVE SeqMax(_)
SeqMax(s) == IF Len(s) = 1 THEN s[1] ELSE IntMax(s[1], SeqMax(Tail(s)))

-----------------------------------------------------------------------------
(* flatten_points *)

\* mutant: a nested item contributes only its first value
RECURSIVE flatten_points_NestedFirstOnly(_)
flatten_points_NestedFirstOnly(points) ==
    IF points = <<>> THEN <<>>
    ELSE LET point == Head(points)
         IN  (IF point.list THEN SubSeq(point.vs, 1, 1) ELSE <<point.v>>)
                 \o flatten_points_NestedFirstOnly(Tail(points))

RECURSIVE flatten_points(_)
flatten_points(points) ==
    IF points = <<>> THEN <<>>
    ELSE LET point == Head(points)
         IN  (IF point.list THEN point.vs ELSE <<point.v>>)
                 \o flatten_points(Tail(points))

-----------------------------------------------------------------------------
(* denormalize_coordinates *)

\* mutant: an odd number of values loses its first one
TruncateOdd_DropFirst(flat_points) ==
    IF Len(flat_points) % 2 # 0 THEN Tail(flat_points) ELSE flat_points

\* lines 72-74: an odd number of values loses its last one
TruncateOdd(flat_points) ==
    IF Len(flat_points) % 2 # 0
    THEN SubSeq(flat_points, 1, Len(flat_points) - 1)
    ELSE flat_points

\* lines 81-82: max(0.0, min(1.0, float(v)))
ClampNorm(v) == PyMax(Rat(0, 1), PyMin(Rat(1, 1), v))

\* mutant: the normalized value is not clamped
ToPixel_NoClamp(v, dim) == IntTrunc(v.n * dim, v.d)

\* lines 83-84: int(x_norm * image_width)
ToPixel(v, dim) == LET c == ClampNorm(v) IN IntTrunc(c.n * dim, c.d)

\* lines 77-85: for i in range(0, len(flat_points), 2); i is the 0-based index
RECURSIVE DenormLoop(_, _, _, _, _)
DenormLoop(flat_points, i, w, h, pixel_coords) ==
    IF i >= Len(flat_points) THEN pixel_coords
    ELSE IF i + 1 >= Len(flat_points) THEN pixel_coords
    ELSE DenormLoop(flat_points, i + 2, w, h,
                    pixel_coords \o <<ToPixel(flat_points[i + 1], w),
                                      ToPixel(flat_points[i + 2], h)>>)

denormalize_coordinates(normalized_points, w, h) ==
    DenormLoop(TruncateOdd(flatten_points(normalized_points)), 0, w, h, <<>>)

-----------------------------------------------------------------------------
(* get_bounding_box *)

\* [pixel_coords[i] for i in range(start, len(pixel_coords), 2)], start 0-based
EveryOther(pixel_coords, start) ==
    LET n == IF Len(pixel_coords) <= start THEN 0
             ELSE (Len(pixel_coords) - start + 1) \div 2
    IN  [k \in 1..n |-> pixel_coords[start + 2 * k - 1]]

\* mutant: the upper clamp is the dimension, as in expand_bbox
ClampPixel_ToDim(v, dim) == IntMax(0, IntMin(v, dim))

\* lines 115-118: max(0, min(v, dim - 1))
ClampPixel(v, dim) == IntMax(0, IntMin(v, dim - 1))

\* mutant: a box of no width or no height is rejected here
get_bounding_box_RejectDegenerate(points, w, h) ==
    LET pixel_coords == denormalize_coordinates(points, w, h)
        x_coords == EveryOther(pixel_coords, 0)
        y_coords == EveryOther(pixel_coords, 1)
    IN  IF Len(pixel_coords) < 2 THEN None
        ELSE IF SeqMax(x_coords) <= SeqMin(x_coords)
                  \/ SeqMax(y_coords) <= SeqMin(y_coords) THEN None
        ELSE <<ClampPixel(SeqMin(x_coords), w), ClampPixel(SeqMin(y_coords), h),
               ClampPixel(SeqMax(x_coords), w), ClampPixel(SeqMax(y_coords), h)>>

get_bounding_box(points, w, h) ==
    LET pixel_coords == denormalize_coordinates(points, w, h)
        x_coords == EveryOther(pixel_coords, 0)
        y_coords == EveryOther(pixel_coords, 1)
    IN  IF Len(pixel_coords) < 2 THEN None
        ELSE IF x_coords = <<>> \/ y_coords = <<>> THEN None
        ELSE <<ClampPixel(SeqMin(x_coords), w), ClampPixel(SeqMin(y_coords), h),
               ClampPixel(SeqMax(x_coords), w), ClampPixel(SeqMax(y_coords), h)>>

-----------------------------------------------------------------------------
(* expand_bbox *)

\* mutant: the box grows from its low edge instead of around its midpoint
EnsureMinSize_FromLowEdge(lo, hi, ms) ==
    IF hi - lo < ms THEN <<lo, lo + ms, ms>> ELSE <<lo, hi, hi - lo>>

\* lines 137-142 / 144-149: one axis of the minimum-size step; the result is
\* <<lo, hi, extent>>
EnsureMinSize(lo, hi, ms) ==
    IF hi - lo < ms
    THEN LET center == (lo + hi) \div 2
         IN  <<center - ms \div 2, center + ms \div 2, ms>>
    ELSE <<lo, hi, hi - lo>>

\* lines 151-152: int(width * padding_percent)
Padding(extent, pp) == IntTrunc(extent * pp, 100)

\* mutant: the upper clamp is dimension - 1, as in get_bounding_box
expand_bbox_ClampDimMinus1(b, w, h, pp, ms) ==
    LET ex == EnsureMinSize(b[1], b[3], ms)
        ey == EnsureMinSize(b[2], b[4], ms)
        padding_x == Padding(ex[3], pp)
        padding_y == Padding(ey[3], pp)
    IN  <<IntMax(0, ex[1] - padding_x),
          IntMax(0, ey[1] - padding_y),
          IntMin(w - 1, ex[2] + padding_x),
          IntMin(h - 1, ey[2] + padding_y)>>

expand_bbox(b, w, h, pp, ms) ==
    LET ex == EnsureMinSize(b[1], b[3], ms)
        ey == EnsureMinSize(b[2], b[4], ms)
        padding_x == Padding(ex[3], pp)
        padding_y == Padding(ey[3], pp)
    IN  <<IntMax(0, ex[1] - padding_x),
          IntMax(0, ey[1] - padding_y),
          IntMin(w, ex[2] + padding_x),
          IntMin(h, ey[2] + padding_y)>>

-----------------------------------------------------------------------------
(* crop_annotation *)

DefaultMinSize == 50

\* annotation[key]: a KeyError when the dict has no such key
HasKey(ann, key) == key \in ann.keys

\* CropBody with no minimum size applied to the box
CropBody_NoMinSize(img, ann, w, h, pp) ==
    IF ~HasKey(ann, "id") THEN Raise
    ELSE IF ~HasKey(ann, "points") THEN Raise
    ELSE LET b == get_bounding_box(ann.points, w, h)
         IN  IF b = None THEN Value(<<NoneImage, None>>)
             ELSE LET expanded_bbox == expand_bbox(b, w, h, pp, 0)
                  IN  IF expanded_bbox[3] <= expanded_bbox[1]
                           \/ expanded_bbox[4] <= expanded_bbox[2]
                      THEN Value(<<NoneImage, None>>)
                      ELSE IF img.isNone THEN Raise
                      ELSE Value(<<ImageCrop(img, expanded_bbox), expanded_bbox>>)

\* lines 172-195: the body of the try block
CropBody(img, ann, w, h, pp) ==
    IF ~HasKey(ann, "id") THEN Raise               \* line 172: annotation['id']
    ELSE IF ~HasKey(ann, "points") THEN Raise      \* line 173
    ELSE LET b == get_bounding_box(ann.points, w, h)
         IN  IF b = None THEN Value(<<NoneImage, None>>)
             ELSE LET expanded_bbox == expand_bbox(b, w, h, pp, DefaultMinSize)
                  IN  IF expanded_bbox[3] <= expanded_bbox[1]
                           \/ expanded_bbox[4] <= expanded_bbox[2]
                      THEN Value(<<NoneImage, None>>)
                      ELSE IF img.isNone THEN Raise    \* line 187: None.crop
                      ELSE LET cropped == ImageCrop(img, expanded_bbox)
                           IN  IF CropSize(cropped)[1] = 0 \/ CropSize(cropped)[2] = 0
                               THEN Value(<<NoneImage, None>>)
                               ELSE Value(<<cropped, expanded_bbox>>)

\* a handler that passes the exception on
CropHandler_Reraise(ann) == Raise

\* lines 197-199: the handler formats annotation['id'] before it returns
CropHandler(ann) ==
    IF ~HasKey(ann, "id") THEN Raise ELSE Value(<<NoneImage, None>>)

crop_annotation(img, ann, w, h, pp) ==
    LET body == CropBody(img, ann, w, h, pp)
    IN  IF body.exc THEN CropHandler(ann) ELSE body

-----------------------------------------------------------------------------
(* draw_annotation_on_image *)

Radius == 15

FillAlpha == 80

OutlineAlpha == 255

StrokeWidth == 3

HexChars == {"0", "8", "F"}

HexDigit(c) == IF c = "0" THEN 0 ELSE IF c = "8" THEN 8 ELSE 15

\* str.lstrip('#')
RECURSIVE LStripHash(_)
LStripHash(s) ==
    IF s # <<>> /\ Head(s) = "#" THEN LStripHash(Tail(s)) ELSE s

\* s[i:i+2], i 0-based
Slice2(s, i) == SubSeq(s, i + 1, IntMin(i + 2, Len(s)))

\* int(t, 16) of a slice of at most two characters; -1 stands for ValueError
Int16(t) ==
    IF t = <<>> \/ \E k \in 1..Len(t) : t[k] \notin HexChars THEN -1
    ELSE IF Len(t) = 1 THEN HexDigit(t[1])
    ELSE 16 * HexDigit(t[1]) + HexDigit(t[2])

\* line 217: tuple(int(color.lstrip('#')[i:i+2], 16) for i in (0, 2, 4))
ParseColor(color) ==
    LET hex == LStripHash(color)
        rgb == <<Int16(Slice2(hex, 0)), Int16(Slice2(hex, 2)), Int16(Slice2(hex, 4))>>
    IN  IF \E k \in 1..3 : rgb[k] = -1 THEN Raise ELSE Value(rgb)

\* OffsetCoords subtracting the crop's left edge from both axes
OffsetCoords_SameOffset(pixel_coords, b) ==
    [i \in 1..Len(pixel_coords) |-> pixel_coords[i] - b[1]]

\* lines 226-229: the crop's origin is subtracted from every coordinate
OffsetCoords(pixel_coords, b) ==
    [i \in 1..Len(pixel_coords) |->
        IF (i - 1) % 2 = 0 THEN pixel_coords[i] - b[1] ELSE pixel_coords[i] - b[2]]

\* [(pixel_coords[i], pixel_coords[i+1]) for i in range(0, len(pixel_coords), 2)]
CoordsList(pixel_coords) ==
    [k \in 1..(Len(pixel_coords) \div 2) |->
        <<pixel_coords[2 * k - 1], pixel_coords[2 * k]>>]

Primitive(kind, coords, rgb, filled) ==
    [kind |-> kind, coords |-> coords,
     outline |-> rgb \o <<OutlineAlpha>>,
     fill |-> IF filled THEN rgb \o <<FillAlpha>> ELSE <<>>,
     width |-> StrokeWidth]

\* lines 232-284: what is drawn, as a sequence of at most one primitive, or an
\* exception of the drawing library.  strict: the installed Pillow rejects a
\* rectangle whose second corner lies left of or above its first (Pillow 9.5
\* and later do, earlier versions draw it).
DrawShape(shape, pixel_coords, rgb, strict) ==
    LET coords_list == CoordsList(pixel_coords)
    IN  IF shape = 3 THEN
            IF Len(pixel_coords) >= 4
            THEN IF strict /\ (pixel_coords[3] < pixel_coords[1]
                               \/ pixel_coords[4] < pixel_coords[2])
                 THEN Raise
                 ELSE Value(<<Primitive("rectangle",
                                        <<<<pixel_coords[1], pixel_coords[2]>>,
                                          <<pixel_coords[3], pixel_coords[4]>>>>,
                                        rgb, TRUE)>>)
            ELSE Value(<<>>)
        ELSE IF shape = 4 THEN
            IF Len(coords_list) >= 3
            THEN Value(<<Primitive("polygon", coords_list, rgb, TRUE)>>)
            ELSE Value(<<>>)
        ELSE IF shape = 8 THEN
            IF Len(pixel_coords) >= 2
            THEN Value(<<Primitive("ellipse",
                                   <<<<pixel_coords[1] - Radius, pixel_coords[2] - Radius>>,
                                     <<pixel_coords[1] + Radius, pixel_coords[2] + Radius>>>>,
                                   rgb, TRUE)>>)
            ELSE Value(<<>>)
        ELSE IF shape = 5 THEN
            IF Len(coords_list) >= 2
            THEN Value(<<Primitive("line", coords_list, rgb, FALSE)>>)
            ELSE Value(<<>>)
        ELSE
            IF Len(coords_list) >= 2
            THEN LET x_coords == EveryOther(pixel_coords, 0)
                     y_coords == EveryOther(pixel_coords, 1)
                 IN  IF x_coords # <<>> /\ y_coords # <<>>
                     THEN Value(<<Primitive("rectangle",
                                            <<<<SeqMin(x_coords), SeqMin(y_coords)>>,
                                              <<SeqMax(x_coords), SeqMax(y_coords)>>>>,
                                            rgb, TRUE)>>)
                     ELSE Value(<<>>)
            ELSE Value(<<>>)

\* the draw happening on the image it is given
DrawTarget_InPlace(img) == img

\* lines 209-210: the image that is drawn on is a copy of the one given
DrawTarget(img) == ImageCopy(img)

\* lines 208-287: the body of the try block
DrawBody(img, ann, w, h, b, strict) ==
    IF ~HasKey(ann, "id") \/ ~HasKey(ann, "shape") THEN Raise     \* line 208
    ELSE IF img.isNone THEN Raise                                  \* line 209: None.copy
    ELSE IF ~HasKey(ann, "points") THEN Raise                      \* line 212
    ELSE IF ~HasKey(ann, "annotation_class") THEN Raise            \* line 214
    ELSE IF ~ann.annotation_class.has_color THEN Raise
    ELSE LET color_rgb == ParseColor(ann.annotation_class.color)
         IN  IF color_rgb.exc THEN Raise
             ELSE LET pixel_coords0 == denormalize_coordinates(ann.points, w, h)
                      pixel_coords == IF b # None THEN OffsetCoords(pixel_coords0, b)
                                      ELSE pixel_coords0
                      drawn == DrawShape(ann.shape, pixel_coords, color_rgb.value, strict)
                  IN  IF drawn.exc THEN Raise
                      ELSE Value([DrawTarget(img) EXCEPT !.drawn = @ \o drawn.value])

\* lines 289-291: the handler formats annotation['id'], then returns image
DrawHandler(img, ann) ==
    IF ~HasKey(ann, "id") THEN Raise ELSE Value(img)

draw_annotation_on_image(img, ann, w, h, b, strict) ==
    LET body == DrawBody(img, ann, w, h, b, strict)
    IN  IF body.exc THEN DrawHandler(img, ann) ELSE body

\* the caller's image after the call: the object it passed, which holds what
\* was drawn when the returned image is that same object
SourceAfter(img, outcome) ==
    IF ~outcome.exc /\ outcome.value.obj = img.obj THEN outcome.value ELSE img

-----------------------------------------------------------------------------
(* download_images *)

\* how requests.get, raise_for_status and Image.open end for one record
\* (lines 36-38): an exception, or a decoded image of the file's mode
FetchOutcomes == {"error", "RGB", "RGBA"}

\* the image decoded for the entry stored at position pos of self.images
DecodedImage(pos, mode) ==
    [isNone |-> FALSE, obj |-> 16 + pos, region |-> None, drawn |-> <<>>,
     mode |-> mode]

\* the pairs holding a changed record, its invisible annotations removed
Downloaded_VisibleOnly(list, stored, fetch) ==
    [idx \in 1..Len(list) |->
        [data |-> [list[idx] EXCEPT !.annotations = SelectSeq(@, LAMBDA a : a.visible # "false")],
         img |-> IF fetch[idx] = "error" THEN NoneImage
                 ELSE DecodedImage(Len(stored) + idx, fetch[idx])]]

\* lines 33-43: the pairs the loop appends, one per record, in list order;
\* a pair holds the caller's record itself
Downloaded(list, stored, fetch) ==
    [idx \in 1..Len(list) |->
        [data |-> list[idx],
         img |-> IF fetch[idx] = "error" THEN NoneImage
                 ELSE DecodedImage(Len(stored) + idx, fetch[idx])]]

\* the number of records before the first whose fetch fails
LeadingSuccesses(fetch) ==
    Cardinality({k \in DOMAIN fetch : \A j \in 1..k : fetch[j] # "error"})

\* download_images giving up at the first failed fetch
download_images_StopAtFailure(list, stored, fetch) ==
    stored \o SubSeq(Downloaded(list, stored, fetch), 1, LeadingSuccesses(fetch))

\* lines 29-48: appends to self.images, which it also returns
download_images(list, stored, fetch) == stored \o Downloaded(list, stored, fetch)

-----------------------------------------------------------------------------
(* save_individual_crops *)

\* ann.get('visible', True) with absent visible hidden
IsVisible_AbsentHidden(ann) == ann.visible = "true"

\* ann.get('visible', True)
IsVisible(ann) == ann.visible # "false"

\* lines 316 and 442: [ann for ann in annotations if ann.get('visible', True)]
VisibleAnnotations(annotations) == SelectSeq(annotations, IsVisible)

\* line 465: f"{output_dir}/img{img_idx + 1}_crop_{ann_id}_{class_name}.jpg"
CropFileName(output_dir, index, ann_id, class_name) ==
    <<output_dir, "/img", ToString(index), "_crop_", ToString(ann_id), "_",
      class_name, ".jpg">>

\* line 466: Image.save to a .jpg file; the JPEG writer takes no alpha channel
SaveJpeg(img) == IF img.mode = "RGB" THEN Value(img) ELSE Raise

\* lines 433-447: the visible annotations the two loops visit, in order, each
\* with the 1-based position of its image in self.images; a pair with no image
\* is skipped
RECURSIVE SaveWork(_, _)
SaveWork(index, stored) ==
    IF index > Len(stored) THEN <<>>
    ELSE LET visible_annotations == VisibleAnnotations(stored[index].data.annotations)
             here == IF stored[index].img.isNone THEN <<>>
                     ELSE [k \in 1..Len(visible_annotations) |->
                              [index |-> index, ann |-> visible_annotations[k]]]
         IN  here \o SaveWork(index + 1, stored)

\* lines 448-468: one visible annotation: an exception ("exc"), a crop that
\* failed ("skipped") or a file written ("saved")
SaveAnnotation(index, image_data, pil_image, ann, output_dir, pp, strict) ==
    IF ~HasKey(ann, "annotation_class") \/ ~HasKey(ann, "id")      \* lines 448-449
    THEN [kind |-> "exc", file |-> None]
    ELSE With(crop_annotation(pil_image, ann, image_data.info.width,
                              image_data.info.height, pp),
              LAMBDA cropped :
        IF cropped.exc THEN [kind |-> "exc", file |-> None]
        ELSE IF cropped.value[1].isNone \/ cropped.value[2] = None
        THEN [kind |-> "skipped", file |-> None]
        ELSE With(draw_annotation_on_image(cropped.value[1], ann,
                                           image_data.info.width,
                                           image_data.info.height,
                                           cropped.value[2], strict),
                  LAMBDA cropped_with_annotation :
            IF cropped_with_annotation.exc THEN [kind |-> "exc", file |-> None]
            ELSE IF SaveJpeg(cropped_with_annotation.value).exc
            THEN [kind |-> "exc", file |-> None]
            ELSE [kind |-> "saved",
                  file |-> [name |-> CropFileName(output_dir, index, ann.id,
                                                  ann.annotation_class.name),
                            content |-> cropped_with_annotation.value]]))

IsSaved(outcome) == outcome.kind = "saved"

\* the outcomes up to the first that raises, and whether one raised
Visited(outcomes) ==
    LET raising == {k \in 1..Len(outcomes) : outcomes[k].kind = "exc"}
    IN  IF raising = {} THEN [done |-> outcomes, exc |-> FALSE]
        ELSE [done |-> SubSeq(outcomes, 1,
                              (CHOOSE k \in raising : \A j \in raising : k <= j) - 1),
              exc |-> TRUE]

\* lines 430-471, on the stored pairs: the count returned, the files written,
\* and whether an exception ended the call.  The annotations are visited in
\* order up to the first that raises.
save_individual_crops(stored, output_dir, pp, strict) ==
    With(SaveWork(1, stored), LAMBDA work :
    With(SubSeq([k \in 1..Len(work) |->
                    SaveAnnotation(work[k].index, stored[work[k].index].data,
                                   stored[work[k].index].img, work[k].ann,
                                   output_dir, pp, strict)], 1, Len(work)),
         LAMBDA outcomes :
    With(SelectSeq(Visited(outcomes).done, IsSaved), LAMBDA saved :
        [total_saved |-> Len(saved),
         files |-> [k \in 1..Len(saved) |-> saved[k].file],
         exc |-> Visited(outcomes).exc])))

-----------------------------------------------------------------------------
(* create_visualization *)

\* the position of the last '.' of the path, 0 when it has none
LastDot(path) ==
    LET dots == {k \in 1..Len(path) : path[k] = "."}
    IN  IF dots = {} THEN 0 ELSE CHOOSE k \in dots : \A j \in dots : j <= k

\* lines 321-325: output_path.rsplit('.', 1) and the two formats
PanelPath(path, index) ==
    LET dot == LastDot(path)
    IN  IF dot > 0
        THEN SubSeq(path, 1, dot - 1) \o <<"_image_", ToString(index), ".">>
                 \o SubSeq(path, dot + 1, Len(path))
        ELSE path \o <<"_image_", ToString(index), ".", "p", "n", "g">>

\* every crop kept, failed or not
IsSuccessfulCrop_Always(cropped) == TRUE

\* line 339: cropped_img is not None and crop_bbox is not None
IsSuccessfulCrop(cropped) == ~cropped[1].isNone /\ cropped[2] # None

\* lines 334-340: the crop of every visible annotation, with the annotation
CropAll(anns, pil_image, w, h, pp) ==
    SubSeq([k \in 1..Len(anns) |->
               [ann |-> anns[k],
                crop |-> crop_annotation(pil_image, anns[k], w, h, pp)]],
           1, Len(anns))

\* the crop neither raised nor failed
Succeeded(c) == ~c.crop.exc /\ IsSuccessfulCrop(c.crop.value)

\* lines 361-364: the first k visible annotations drawn in turn on the copy
RECURSIVE DrawAll(_, _, _, _, _, _)
DrawAll(pil_image, k, anns, w, h, strict) ==
    IF k = 0 THEN Value(ImageCopy(pil_image))
    ELSE With(DrawAll(pil_image, k - 1, anns, w, h, strict), LAMBDA before :
             IF before.exc THEN before
             ELSE draw_annotation_on_image(before.value, anns[k], w, h, None, strict))

\* lines 385-404: the tile of one successful crop
Tile(c, w, h, strict) ==
    draw_annotation_on_image(c.crop.value[1], c.ann, w, h, c.crop.value[2], strict)

\* lines 309-410: one stored pair: no panel ("skipped"), an exception ("exc")
\* or the panel written ("saved")
VisualizeImage(index, image_data, pil_image, path, pp, strict) ==
    IF pil_image.isNone THEN [kind |-> "skipped", file |-> None]
    ELSE
    With(image_data.info.width, LAMBDA w :
    With(image_data.info.height, LAMBDA h :
    With(VisibleAnnotations(image_data.annotations), LAMBDA visible_annotations :
        IF Len(visible_annotations) = 0 THEN [kind |-> "skipped", file |-> None]
        ELSE
        With(CropAll(visible_annotations, pil_image, w, h, pp), LAMBDA crops :
        With(SelectSeq(crops, Succeeded), LAMBDA successful_crops :
            IF \E k \in 1..Len(crops) : crops[k].crop.exc
            THEN [kind |-> "exc", file |-> None]
            ELSE IF Len(successful_crops) = 0 THEN [kind |-> "skipped", file |-> None]
            ELSE
            With(DrawAll(pil_image, Len(visible_annotations), visible_annotations,
                         w, h, strict),
                 LAMBDA original_with_annotations :
            With(SubSeq([k \in 1..Len(successful_crops) |->
                            Tile(successful_crops[k], w, h, strict)],
                        1, Len(successful_crops)),
                 LAMBDA tiles :
                IF original_with_annotations.exc THEN [kind |-> "exc", file |-> None]
                ELSE IF \E k \in 1..Len(successful_crops) :      \* lines 372, 394
                           \/ ~HasKey(successful_crops[k].ann, "annotation_class")
                           \/ tiles[k].exc
                THEN [kind |-> "exc", file |-> None]
                ELSE [kind |-> "saved",
                      file |-> [path |-> PanelPath(path, index),
                                overlay |-> original_with_annotations.value,
                                tiles |-> [k \in 1..Len(successful_crops) |->
                                    [ann_id |-> successful_crops[k].ann.id,
                                     img |-> tiles[k].value]]]])))))))

\* lines 299-416, on the stored pairs: the panels written and whether an
\* exception ended the call; it returns True otherwise.  The pairs are
\* visited in order up to the first that raises.
create_visualization(stored, path, pp, strict) ==
    With(SubSeq([index \in 1..Len(stored) |->
                    VisualizeImage(index, stored[index].data, stored[index].img,
                                   path, pp, strict)], 1, Len(stored)),
         LAMBDA outcomes :
    With(SelectSeq(Visited(outcomes).done, IsSaved), LAMBDA saved :
        [panels |-> [k \in 1..Len(saved) |-> saved[k].file],
         exc |-> Visited(outcomes).exc]))

-----------------------------------------------------------------------------
(* get_summary *)

\* the number of stored pairs whose image is, or is not, None
CountPairs(stored, none) ==
    Cardinality({k \in 1..Len(stored) : stored[k].img.isNone = none})

\* lines 488-495: the entry of the pair at position img_idx + 1
ImgInfo(index, image_data, pil_image) ==
    [index |-> index,
     downloaded |-> ~pil_image.isNone,
     width |-> image_data.info.width,
     height |-> image_data.info.height,
     total_annotations |-> Len(image_data.annotations),
     visible_annotations |-> Len(VisibleAnnotations(image_data.annotations))]

\* lines 480-500, on the record list and the stored pairs
get_summary(list, stored) ==
    [total_images |-> Len(list),
     successful_downloads |-> CountPairs(stored, FALSE),
     failed_downloads |-> CountPairs(stored, TRUE),
     images |-> [k \in 1..Len(stored) |->
                    ImgInfo(k, stored[k].data, stored[k].img)]]

-----------------------------------------------------------------------------
(* The API client: T2D2.request *)

\* no exception
NoError == [type |-> "none", msg |-> <<>>]

Exception(type, msg) == [type |-> type, msg |-> msg]

\* KeyError(key): a dict read at a key it does not hold
KeyError(key) == Exception("KeyError", <<key>>)

\* a client call that returned value, having sent the requests of s
Success(value, s) == [exc |-> FALSE, error |-> NoError, value |-> value, sent |-> s]

\* a client call that raised e, having sent the requests of s
Failure(e, s) == [exc |-> TRUE, error |-> e, value |-> None, sent |-> s]

\* the members of RequestType (lines 223-229)
RequestTypes == {"GET", "PUT", "POST", "DELETE"}

\* one call of requests.get, post, put or delete (lines 332-364)
HttpRequest(req_type, url_suffix, data) ==
    [method |-> req_type, url_suffix |-> url_suffix, data |-> data]

\* the default of data (lines 322-323)
NoData == [keys |-> {}]

\* res.json(): the parsed body, or an exception when the body is not JSON
ParseJson(res) == IF res.is_json THEN Value(res.body) ELSE Raise

\* line 372: {"content": res.content}
ContentDict(content) == [keys |-> {"content"}, content |-> content]

\* only 200 taken as success
SuccessCodes_Only200 == {200}

\* line 366: res.status_code in (200, 201)
SuccessCodes == {200, 201}

\* lines 307-381: one request of type req_type, answered by res
request(url_suffix, req_type, data, res) ==
    IF req_type \notin RequestTypes
    THEN Failure(Exception("ValueError",
                           <<"Request type not yet supported. Coming soon">>), <<>>)
    ELSE LET s == <<HttpRequest(req_type, url_suffix, data)>>
         IN  IF res.status_code \in SuccessCodes
             THEN IF ParseJson(res).exc
                  THEN Success(ContentDict(res.content), s)
                  ELSE Success(ParseJson(res).value, s)
             ELSE Failure(Exception("ValueError",
                                    <<"Error code received: ",
                                      ToString(res.status_code)>>), s)

\* json_data["data"] of a request's outcome: KeyError when the body has none
DataOf(json_data) ==
    IF json_data.exc THEN json_data
    ELSE IF ~HasKey(json_data.value, "data") THEN Failure(KeyError("data"), json_data.sent)
    ELSE Success(json_data.value.data, json_data.sent)

-----------------------------------------------------------------------------
(* The API client: datasets *)

\* the action checked after the request is sent
update_dataset_images_CheckAfter(dataset_id, action, image_ids, res) ==
    LET json_data == request(<<"datasets/", ToString(dataset_id)>>, "PUT",
                             [action |-> action, image_ids |-> image_ids], res)
    IN  IF action \notin {"add", "remove"}
        THEN Failure(Exception("ValueError",
                               <<"Action must be either 'add' or 'remove'">>),
                     json_data.sent)
        ELSE DataOf(json_data)

\* lines 3618-3627
update_dataset_images(dataset_id, action, image_ids, res) ==
    IF action \notin {"add", "remove"}
    THEN Failure(Exception("ValueError",
                           <<"Action must be either 'add' or 'remove'">>), <<>>)
    ELSE DataOf(request(<<"datasets/", ToString(dataset_id)>>, "PUT",
                        [action |-> action, image_ids |-> image_ids], res))

-----------------------------------------------------------------------------
(* The API client: the current project *)

\* the empty dict {}
EmptyDict == [keys |-> {}]

\* bool(d) of a dict: it holds a key
Truthy(d) == d.keys # {}

\* a client's fields
Self(p, url, region, b) ==
    [project |-> p, s3_base_url |-> url, aws_region |-> region, bucket |-> b]

\* a URL attribute never assigned: the class only declares it (line 265)
UnsetUrl == [scheme |-> "unset", netloc |-> <<>>, path |-> <<>>]

\* lines 622-623: urlparse(s3_base_url).netloc.split(".")[0]; a URL is its scheme,
\* the labels of its netloc and its path
BucketOf(url) == IF url.netloc = <<>> THEN "" ELSE url.netloc[1]

\* a call on the client self that left it as after
After(outcome, after) == outcome @@ [self |-> after]

\* lines 610-625: the fields are assigned one by one, each before the next
\* value is read
set_project(self, project_id, res) ==
    LET json_data == request(<<"project/", ToString(project_id)>>, "GET", NoData, res)
    IN  IF json_data.exc THEN After(json_data, self)
        ELSE IF ~HasKey(json_data.value, "success")                     \* line 612
        THEN After(Failure(KeyError("success"), json_data.sent), self)
        ELSE IF ~json_data.value.success
        THEN IF HasKey(json_data.value, "message")                      \* line 614
             THEN After(Failure(Exception("ValueError", <<json_data.value.message>>),
                                json_data.sent), self)
             ELSE After(Failure(KeyError("message"), json_data.sent), self)
        ELSE IF ~HasKey(json_data.value, "data")                        \* line 616
        THEN After(Failure(KeyError("data"), json_data.sent), self)
        ELSE LET p == json_data.value.data
                 stored == [self EXCEPT !.project = p]                  \* line 617
             IN  IF ~HasKey(p, "config")                                \* line 620
                 THEN After(Failure(KeyError("config"), json_data.sent), stored)
                 ELSE IF ~HasKey(p.config, "s3_base_url")
                 THEN After(Failure(KeyError("s3_base_url"), json_data.sent), stored)
                 ELSE IF ~HasKey(p.config, "aws_region")                \* line 621
                 THEN After(Failure(KeyError("aws_region"), json_data.sent),
                            [stored EXCEPT !.s3_base_url = p.config.s3_base_url])
                 ELSE After(Success(None, json_data.sent),
                            Self(p, p.config.s3_base_url, p.config.aws_region,
                                 BucketOf(p.config.s3_base_url)))

-----------------------------------------------------------------------------
(* The API client: operations on the current project *)

\* lines 692-693 and the like: if not self.project: raise ValueError(msg)
ProjectNotSet(msg) == Failure(Exception("ValueError", <<msg>>), <<>>)

\* self.project['id'] in a URL
ProjectId(p) == ToString(p.id)

\* lines 692-697
add_region(p, region_name, res) ==
    IF ~Truthy(p) THEN ProjectNotSet("Project not set")
    ELSE IF ~HasKey(p, "id") THEN Failure(KeyError("id"), <<>>)
    ELSE request(<<ProjectId(p), "/categories/regions">>, "POST",
                 [name |-> region_name], res)

\* lines 844-845: no check of self.project
add_assets(p, payload, res) ==
    IF ~HasKey(p, "id") THEN Failure(KeyError("id"), <<>>)
    ELSE request(<<ProjectId(p), "/assets/bulk.create">>, "POST", payload, res)

\* lines 965-983: the assets of the paths whose upload to storage succeeded
UploadedAssets(image_paths, uploaded) ==
    SelectSeq([k \in 1..Len(image_paths) |->
                  [name |-> image_paths[k], uploaded |-> uploaded[k]]],
              LAMBDA a : a.uploaded)

\* lines 954-1003: self.s3_base_url is read once a path is there to upload
upload_images(self, image_paths, uploaded, res) ==
    IF ~Truthy(self.project) THEN ProjectNotSet("Project not set")
    ELSE IF Len(image_paths) > 0 /\ self.s3_base_url = UnsetUrl
    THEN Failure(Exception("AttributeError", <<"s3_base_url">>), <<>>)
    ELSE IF ~HasKey(self.project, "id") THEN Failure(KeyError("id"), <<>>)
    ELSE add_assets(self.project,
                    [project_id |-> self.project.id, asset_type |-> 1,
                     image_type |-> 1,
                     assets |-> UploadedAssets(image_paths, uploaded)], res)

\* image_ids=None, and a list of image ids
AllImages == [given |-> FALSE, ids |-> <<>>]

TheseImages(ids) == [given |-> TRUE, ids |-> ids]

\* lines 1084-1089: one GET for each of the first n ids, answered in turn by
\* resps; results holds json_data["data"] of each
RECURSIVE FetchEach(_, _, _, _)
FetchEach(p, ids, n, resps) ==
    IF n = 0 THEN Success(<<>>, <<>>)
    ELSE With(FetchEach(p, ids, n - 1, resps), LAMBDA before :
         IF before.exc THEN before
         ELSE With(DataOf(request(<<ProjectId(p), "/images/", ToString(ids[n])>>,
                                  "GET", NoData, resps[n])),
                   LAMBDA img :
              IF img.exc THEN Failure(img.error, before.sent \o img.sent)
              ELSE Success(Append(before.value, img.value),
                           before.sent \o img.sent)))

\* lines 1056-1091, without filters
get_images(p, image_ids, resps) ==
    IF ~Truthy(p) THEN ProjectNotSet("Project not set yet")
    ELSE IF ~HasKey(p, "id") THEN Failure(KeyError("id"), <<>>)
    ELSE IF ~image_ids.given
    THEN With(DataOf(request(<<ProjectId(p), "/images">>, "GET", NoData, resps[1])),
              LAMBDA data :
         IF data.exc THEN data
         ELSE IF ~HasKey(data.value, "image_list")
         THEN Failure(KeyError("image_list"), data.sent)
         ELSE Success(data.value.image_list, data.sent))
    ELSE FetchEach(p, image_ids.ids, Len(image_ids.ids), resps)

\* line 2589: [img["id"] for img in images]
IdsOf(imgs) ==
    IF \E k \in 1..Len(imgs) : ~HasKey(imgs[k], "id") THEN Failure(KeyError("id"), <<>>)
    ELSE Success([k \in 1..Len(imgs) |-> imgs[k].id], <<>>)

\* lines 2597-2599: the annotations of every image, img.get("annotations", [])
RECURSIVE AnnotationsOf(_, _)
AnnotationsOf(imgs, n) ==
    IF n = 0 THEN <<>>
    ELSE AnnotationsOf(imgs, n - 1)
             \o (IF HasKey(imgs[n], "annotations") THEN imgs[n].annotations ELSE <<>>)

\* lines 2580-2602: image_id=None asks for the images first
get_annotations(p, image_id, resps) ==
    IF ~Truthy(p) THEN ProjectNotSet("Project not set")
    ELSE
    With(IF image_id.given THEN Success(<<image_id.id>>, <<>>)
         ELSE With(get_images(p, AllImages, resps), LAMBDA found :
                  IF found.exc THEN found
                  ELSE IF IdsOf(found.value).exc
                  THEN Failure(IdsOf(found.value).error, found.sent)
                  ELSE Success(IdsOf(found.value).value, found.sent)),
         LAMBDA image_ids :
    IF image_ids.exc THEN image_ids
    ELSE With(get_images(p, TheseImages(image_ids.value),
                         SubSeq(resps, Len(image_ids.sent) + 1, Len(resps))),
              LAMBDA imgs :
         IF imgs.exc THEN Failure(imgs.error, image_ids.sent \o imgs.sent)
         ELSE Success(AnnotationsOf(imgs.value, Len(imgs.value)),
                      image_ids.sent \o imgs.sent)))

-----------------------------------------------------------------------------
(* Inputs *)

\* normalized coordinates: below 0, interior values, above 1
NormVals == {Rat(-3, 10), Rat(1, 10), Rat(2, 10), Rat(9, 10), Rat(12, 10)}

FlatSeqs == UNION {[1..n -> NormVals] : n \in 0..MaxLen}

\* [x1, y1, x2, y2, ...]
AsFlat(f) == [k \in 1..Len(f) |-> Scalar(f[k])]

\* [[x1, y1], [x2, y2], ...]; an unpaired last value becomes [x]
AsNested(f) ==
    [k \in 1..((Len(f) + 1) \div 2) |->
        Nested(SubSeq(f, 2 * k - 1, IntMin(2 * k, Len(f))))]

\* [[x1, y1], x2, y2, ...]
AsMixed(f) ==
    IF Len(f) < 2 THEN AsFlat(f)
    ELSE <<Nested(SubSeq(f, 1, 2))>> \o AsFlat(SubSeq(f, 3, Len(f)))

PointsInputs == UNION {{AsFlat(f), AsNested(f), AsMixed(f)} : f \in FlatSeqs}

AllKeys == {"id", "shape", "points", "annotation_class"}

\* "#FF0000", "0080FF" (no '#'), "#F00" (too short), "red", "" as characters
ColorInputs == {<<"#", "F", "F", "0", "0", "0", "0">>,
                <<"0", "0", "8", "0", "F", "F">>,
                <<"#", "F", "0", "0">>,
                <<"r", "e", "d">>,
                <<>>}

\* annotation['annotation_class'], with or without 'annotation_class_color'
\* and 'annotation_class_name' / 'annotation_class_long_name' (name)
ClassInputs == {[has_color |-> TRUE, color |-> c, name |-> "crack"] : c \in ColorInputs}
                   \cup {[has_color |-> FALSE, color |-> <<>>, name |-> "crack"]}

DefaultClass ==
    [has_color |-> TRUE, color |-> <<"#", "F", "F", "0", "0", "0", "0">>,
     name |-> "crack"]

\* Rectangle, Polygon, Line, Point and a code the engine does not know
ShapeInputs == {3, 4, 5, 8, 1}

\* the dict: keys are the keys it holds; a field whose key is absent is unread.
\* visible is "true", "false", or "absent" when the dict has no 'visible' key
Annotation(ks, sh, ps, cl) ==
    [keys |-> ks, id |-> 7, shape |-> sh, points |-> ps, annotation_class |-> cl,
     visible |-> "absent"]

DefaultPoints == AsFlat(<<Rat(1, 10), Rat(2, 10), Rat(9, 10), Rat(9, 10)>>)

\* no point, odd length, one point, two points in either order, three points
AnnotPoints ==
    {AsFlat(<<>>),
     AsFlat(<<Rat(1, 10), Rat(2, 10), Rat(9, 10)>>),
     AsFlat(<<Rat(5, 10), Rat(5, 10)>>),
     AsFlat(<<Rat(0, 1), Rat(0, 1), Rat(5, 10), Rat(5, 10)>>),
     AsNested(<<Rat(9, 10), Rat(9, 10), Rat(1, 10), Rat(2, 10)>>),
     AsNested(<<Rat(1, 10), Rat(9, 10), Rat(12, 10), Rat(2, 10), Rat(5, 10), Rat(-3, 10)>>)}

ImageSizes == {<<100, 100>>, <<7, 3>>}

CoordVals == {0, 2, 7, 25, 40, 45, 120, 1200}

BoxInputs == {b \in CoordVals \X CoordVals \X CoordVals \X CoordVals :
                 b[1] <= b[3] /\ b[2] <= b[4]}

DefaultBox == <<40, 40, 45, 45>>

------------------------------------------------------------------------

\* annotations of the image records: a Rectangle, two Points and one with an
\* empty points list, which has no bounding box and cannot be cropped
RectAnn == Annotation(AllKeys, 3, DefaultPoints, DefaultClass)

PointAnn == Annotation(AllKeys, 8, AsFlat(<<Rat(5, 10), Rat(5, 10)>>), DefaultClass)

CornerPointAnn == Annotation(AllKeys, 8, AsFlat(<<Rat(1, 10), Rat(2, 10)>>), DefaultClass)

EmptyAnn == Annotation(AllKeys, 4, AsFlat(<<>>), DefaultClass)

\* the annotation with the given 'id' and 'visible'
VisibleAs(ann, ident, v) == [ann EXCEPT !.id = ident, !.visible = v]

\* an image record: image_data['info'] and image_data['annotations']
ImageRecord(w, h, anns) ==
    [info |-> [width |-> w, height |-> h], annotations |-> anns]

\* a croppable visible annotation, an invisible one, one with no 'visible'
\* key and a visible one that cannot be cropped
MixedRecord ==
    ImageRecord(200, 200, <<VisibleAs(RectAnn, 1, "true"),
                            VisibleAs(CornerPointAnn, 2, "false"),
                            VisibleAs(PointAnn, 3, "absent"),
                            VisibleAs(EmptyAnn, 4, "true")>>)

\* no visible annotation
HiddenRecord == ImageRecord(40, 30, <<VisibleAs(RectAnn, 5, "false")>>)

\* a visible annotation, none that can be cropped
UncroppableRecord == ImageRecord(200, 200, <<VisibleAs(EmptyAnn, 6, "true")>>)

ImageRecords == {MixedRecord, HiddenRecord, UncroppableRecord}

\* the image record lists of at most n records
RecordLists(n) == UNION {[1..k -> ImageRecords] : k \in 0..n}

\* "a.png" as characters
DefaultOutputPath == <<"a", ".", "p", "n", "g">>

\* the default of output_dir (line 418)
OutputDir == "crops"

\* output paths: a letter, the extension separator and the directory separator
PathChars == {"a", ".", "/"}

PathInputs == UNION {[1..k -> PathChars] : k \in 0..MaxPathLen}

-----------------------------------------------------------------------------
(* Inputs of the API client *)

\* an object storage URL: its scheme, the labels of its netloc and its path
S3Url(b) == [scheme |-> "https", netloc |-> <<b, "s3", "amazonaws", "com">>,
             path |-> <<>>]

\* project["config"] holding the keys ks
Config(ks, b, region) ==
    [keys |-> ks, s3_base_url |-> S3Url(b), aws_region |-> region]

\* a project record holding the keys ks
Project(ks, id, cfg) == [keys |-> ks, id |-> id, config |-> cfg]

ConfigKeys == {"s3_base_url", "aws_region"}

ProjectA == Project({"id", "config"}, 1, Config(ConfigKeys, "bucket-a", "us-east-1"))

ProjectB == Project({"id", "config"}, 2, Config(ConfigKeys, "bucket-b", "eu-west-1"))

\* project records lacking config.s3_base_url or config.aws_region
ProjectNoUrl ==
    Project({"id", "config"}, 3, Config({"aws_region"}, "bucket-c", "ap-south-1"))

ProjectNoRegion ==
    Project({"id", "config"}, 4, Config({"s3_base_url"}, "bucket-d", "sa-east-1"))

\* an image record of the API and the answer that lists it
ApiImage == [keys |-> {"id", "annotations"}, id |-> 7, annotations |-> <<"crack">>]

ImageListData == [keys |-> {"image_list"}, image_list |-> <<ApiImage>>]

\* JSON bodies: {"success": true, "data": ...} and a failure with a message
OkBody(data) ==
    [keys |-> {"success", "data"}, success |-> TRUE, message |-> "", data |-> data]

FailBody ==
    [keys |-> {"success", "message"}, success |-> FALSE,
     message |-> "Project not found", data |-> EmptyDict]

\* an HTTP response: its status, its raw content and what the content parses to
Response(status_code, is_json, body) ==
    [status_code |-> status_code, is_json |-> is_json, body |-> body,
     content |-> IF is_json THEN "json bytes" ELSE "<html>"]

DataInputs ==
    {ProjectA, ProjectB, ProjectNoUrl, ProjectNoRegion, EmptyDict,
     ImageListData, ApiImage}

\* the answers the operations of the client meet
Responses ==
    {Response(200, TRUE, OkBody(d)) : d \in DataInputs}
        \cup {Response(200, TRUE, FailBody), Response(200, FALSE, FailBody),
              Response(401, TRUE, FailBody)}

\* the answers to a request for images
ImageResponses ==
    {Response(200, TRUE, OkBody(ImageListData)), Response(200, TRUE, OkBody(ApiImage)),
     Response(200, TRUE, OkBody(EmptyDict)), Response(401, TRUE, FailBody)}

\* status codes: success, other 2xx codes, client and server errors
StatusCodes == {200, 201, 202, 204, 301, 401, 404, 500}

\* the answers a direct call of request meets
AnyResponses ==
    {Response(c, j, b) : c \in StatusCodes, j \in BOOLEAN,
                         b \in {OkBody(ProjectA), FailBody}}

ActionInputs == {"add", "remove", "invalid_action", ""}

ImageIdInputs == {<<123>>, <<660068, 660069>>}

-----
(* Initial states *)

InitCall ==
    /\ op = "none"
    /\ raised = FALSE
    /\ ret = None

\* no cropper is under study: an empty record list, nothing stored or written
InitNoCropper ==
    /\ image_data_list = <<>>
    /\ images = <<>>
    /\ fetched = <<>>
    /\ output_path = <<>>
    /\ written = <<>>
    /\ panels = <<>>

\* a client call with arguments args whose requests, in turn, met resps
Call(args, resps) == [args |-> args, resps |-> resps]

NoCall == Call(<<>>, <<>>)

\* no client is under study: no project, no request sent
InitNoClient ==
    /\ project = EmptyDict
    /\ s3_base_url = UnsetUrl
    /\ aws_region = "unset"
    /\ bucket = "unset"
    /\ sent = <<>>
    /\ error = NoError
    /\ call = NoCall

\* the geometry of a points list
InitPoints ==
    /\ \E ps \in PointsInputs : annotation = Annotation(AllKeys, 3, ps, DefaultClass)
    /\ image = SrcImage
    /\ \E s \in ImageSizes : image_width = s[1] /\ image_height = s[2]
    /\ padding_percent = 20
    /\ min_size = DefaultMinSize
    /\ bbox = DefaultBox
    /\ crop_bbox = None
    /\ pil_strict = TRUE
    /\ InitNoCropper
    /\ InitNoClient
    /\ InitCall

\* the expansion of a pixel box
InitExpand ==
    /\ annotation = Annotation(AllKeys, 3, DefaultPoints, DefaultClass)
    /\ image = SrcImage
    /\ image_width \in {1000, 60}
    /\ image_height \in {1000, 60}
    /\ padding_percent \in {0, 20}
    /\ min_size = DefaultMinSize
    /\ bbox \in BoxInputs
    /\ crop_bbox = None
    /\ pil_strict = TRUE
    /\ InitNoCropper
    /\ InitNoClient
    /\ InitCall

\* minimum sizes, even and odd, and boxes far enough from every edge of a
\* 1000x1000 image for the clamps of expand_bbox to leave them alone
MinSizes == {1, 2, 3, 50, 51}

InteriorCoords == {400, 402, 407, 440, 445, 520}

InteriorBoxes == {b \in InteriorCoords \X InteriorCoords \X InteriorCoords \X InteriorCoords :
                     b[1] <= b[3] /\ b[2] <= b[4]}

\* expand_bbox with a minimum size of the caller's choosing
InitMinSize ==
    /\ annotation = Annotation(AllKeys, 3, DefaultPoints, DefaultClass)
    /\ image = SrcImage
    /\ image_width = 1000
    /\ image_height = 1000
    /\ padding_percent \in {0, 20}
    /\ min_size \in MinSizes
    /\ bbox \in InteriorBoxes
    /\ crop_bbox = None
    /\ pil_strict = TRUE
    /\ InitNoCropper
    /\ InitNoClient
    /\ InitCall

\* coordinates below 0, inside and above 1: the first and last denormalize
\* to the image's edges
EdgeNormVals == {Rat(-3, 10), Rat(5, 10), Rat(12, 10)}

\* flat and nested points lists of such coordinates
EdgePoints ==
    UNION {{AsFlat(f), AsNested(f)} :
              f \in UNION {[1..n -> EdgeNormVals] : n \in 0..MaxLen}}

\* declared sizes from one pixel up
PositiveSizes == {<<1, 1>>, <<2, 7>>, <<60, 40>>, <<1000, 800>>}

\* crop_annotation on a well-formed annotation, with no, the default and a
\* large padding
InitCropBox ==
    /\ \E ps \in EdgePoints : annotation = Annotation(AllKeys, 3, ps, DefaultClass)
    /\ image = SrcImage
    /\ \E s \in PositiveSizes : image_width = s[1] /\ image_height = s[2]
    /\ padding_percent \in {0, 20, 150}
    /\ min_size = DefaultMinSize
    /\ bbox = DefaultBox
    /\ crop_bbox = None
    /\ pil_strict = TRUE
    /\ InitNoCropper
    /\ InitNoClient
    /\ InitCall

\* declared image sizes; the last declares a width of 0
AnnotSizes == {<<200, 200>>, <<40, 30>>, <<0, 30>>}

\* annotation records, well formed or not
InitAnnot ==
    /\ \E ks \in SUBSET AllKeys, sh \in ShapeInputs, ps \in AnnotPoints,
          cl \in ClassInputs : annotation = Annotation(ks, sh, ps, cl)
    /\ image \in {SrcImage, NoneImage}
    /\ \E s \in AnnotSizes : image_width = s[1] /\ image_height = s[2]
    /\ padding_percent = 20
    /\ min_size = DefaultMinSize
    /\ bbox = DefaultBox
    /\ crop_bbox \in {None, <<20, 10, 90, 70>>}
    /\ pil_strict \in BOOLEAN
    /\ InitNoCropper
    /\ InitNoClient
    /\ InitCall

\* a cropper just constructed on a list of image records
InitCropper ==
    /\ image_data_list \in RecordLists(MaxImages)
    /\ images = <<>>
    /\ fetched = <<>>
    /\ output_path = DefaultOutputPath
    /\ written = <<>>
    /\ panels = <<>>
    /\ annotation = RectAnn
    /\ image = SrcImage
    /\ image_width = 200
    /\ image_height = 200
    /\ padding_percent = 20
    /\ min_size = DefaultMinSize
    /\ bbox = DefaultBox
    /\ crop_bbox = None
    /\ pil_strict = TRUE
    /\ InitNoClient
    /\ InitCall

\* a cropper just constructed, and an annotation of its records for the
\* per-annotation methods: the invisible one or the one with no 'visible' key
InitVisible ==
    /\ image_data_list \in RecordLists(MaxImages)
    /\ images = <<>>
    /\ fetched = <<>>
    /\ output_path = DefaultOutputPath
    /\ written = <<>>
    /\ panels = <<>>
    /\ annotation \in {MixedRecord.annotations[2], MixedRecord.annotations[3]}
    /\ image = SrcImage
    /\ image_width = MixedRecord.info.width
    /\ image_height = MixedRecord.info.height
    /\ padding_percent = 20
    /\ min_size = DefaultMinSize
    /\ bbox = DefaultBox
    /\ crop_bbox = None
    /\ pil_strict = TRUE
    /\ InitNoClient
    /\ InitCall

\* a Rectangle, whole or missing one required field
MalformedAnnotations ==
    {Annotation(ks, 3, DefaultPoints, DefaultClass) :
        ks \in {AllKeys} \cup {AllKeys \ {k} : k \in AllKeys}}

\* a cropper on one record holding one such annotation, which is also the
\* annotation given to the per-annotation methods
InitMalformed ==
    /\ annotation \in MalformedAnnotations
    /\ image_data_list = <<ImageRecord(200, 200, <<annotation>>)>>
    /\ images = <<>>
    /\ fetched = <<>>
    /\ output_path = DefaultOutputPath
    /\ written = <<>>
    /\ panels = <<>>
    /\ image = SrcImage
    /\ image_width = 200
    /\ image_height = 200
    /\ padding_percent = 20
    /\ min_size = DefaultMinSize
    /\ bbox = DefaultBox
    /\ crop_bbox = None
    /\ pil_strict = TRUE
    /\ InitNoClient
    /\ InitCall

\* a cropper on two records with croppable annotations, and an output path
InitPath ==
    /\ image_data_list = <<MixedRecord, MixedRecord>>
    /\ images = <<>>
    /\ fetched = <<>>
    /\ output_path \in PathInputs
    /\ written = <<>>
    /\ panels = <<>>
    /\ annotation = RectAnn
    /\ image = SrcImage
    /\ image_width = 200
    /\ image_height = 200
    /\ padding_percent = 20
    /\ min_size = DefaultMinSize
    /\ bbox = DefaultBox
    /\ crop_bbox = None
    /\ pil_strict = TRUE
    /\ InitNoClient
    /\ InitCall

\* annotations for the engine's methods: a Rectangle, nested points of odd
\* length and an empty points list
FrameAnnotations ==
    {RectAnn,
     Annotation(AllKeys, 4, AsNested(<<Rat(1, 10), Rat(2, 10), Rat(9, 10)>>),
                DefaultClass),
     EmptyAnn}

\* the record lists of a cropper whose caller also calls the other methods
FrameLists == {<<MixedRecord>>, <<HiddenRecord, MixedRecord>>}

\* a cropper just constructed, and arguments for the per-annotation methods
InitFrame ==
    /\ image_data_list \in FrameLists
    /\ images = <<>>
    /\ fetched = <<>>
    /\ output_path = DefaultOutputPath
    /\ written = <<>>
    /\ panels = <<>>
    /\ annotation \in FrameAnnotations
    /\ image = SrcImage
    /\ image_width = 200
    /\ image_height = 200
    /\ padding_percent = 20
    /\ min_size = DefaultMinSize
    /\ bbox = DefaultBox
    /\ crop_bbox = None
    /\ pil_strict = TRUE
    /\ InitNoClient
    /\ InitCall

-----------------------------------------------------------------------------
(* Calls: each engine method, called on the current inputs *)

Returns(name, value) ==
    /\ op' = name
    /\ raised' = FALSE
    /\ ret' = value
    /\ UNCHANGED <<inputs, pil_strict, cropper, client>>

\* the call ends as outcome says: a return value or an exception
Ends(name, outcome) ==
    /\ op' = name
    /\ raised' = outcome.exc
    /\ ret' = outcome.value
    /\ UNCHANGED <<inputs, pil_strict, cropper, client>>

CallFlattenPoints ==
    /\ HasKey(annotation, "points")
    /\ Returns("flatten_points", flatten_points(annotation.points))

CallDenormalize ==
    /\ HasKey(annotation, "points")
    /\ Returns("denormalize_coordinates",
               denormalize_coordinates(annotation.points, image_width, image_height))

CallGetBoundingBox ==
    /\ HasKey(annotation, "points")
    /\ Returns("get_bounding_box",
               get_bounding_box(annotation.points, image_width, image_height))

CallExpandBbox ==
    /\ Returns("expand_bbox",
               expand_bbox(bbox, image_width, image_height, padding_percent,
                           min_size))

CallCropAnnotation ==
    /\ Ends("crop_annotation",
            crop_annotation(image, annotation, image_width, image_height,
                            padding_percent))

CallDrawAnnotation ==
    /\ LET outcome == draw_annotation_on_image(image, annotation, image_width,
                                               image_height, crop_bbox, pil_strict)
       IN  /\ op' = "draw_annotation_on_image"
           /\ raised' = outcome.exc
           /\ ret' = outcome.value
           /\ image' = SourceAfter(image, outcome)
    /\ UNCHANGED <<arguments, pil_strict, cropper, client>>

Next ==
    \/ CallFlattenPoints
    \/ CallDenormalize
    \/ CallGetBoundingBox
    \/ CallExpandBbox
    \/ CallCropAnnotation
    \/ CallDrawAnnotation

SpecPoints == InitPoints /\ [][Next]_vars

SpecExpand == InitExpand /\ [][Next]_vars

SpecAnnot == InitAnnot /\ [][Next]_vars

SpecMinSize == InitMinSize /\ [][Next]_vars

SpecCropBox == InitCropBox /\ [][Next]_vars

\* the fetch outcomes a call can meet: it fetches only if it downloads
FetchChoices ==
    IF images = <<>> THEN [1..Len(image_data_list) -> FetchOutcomes] ELSE {fetched}

\* lines 299-300 and 430-431: if not self.images: self.download_images()
EnsureImages(fetch) ==
    IF images = <<>> THEN download_images(image_data_list, images, fetch) ELSE images

DownloadImages ==
    /\ Len(images) + Len(image_data_list) <= MaxStored
    /\ \E fetch \in [1..Len(image_data_list) -> FetchOutcomes] :
          /\ images' = download_images(image_data_list, images, fetch)
          /\ fetched' = fetch
          /\ ret' = download_images(image_data_list, images, fetch)
    /\ op' = "download_images"
    /\ raised' = FALSE
    /\ written' = <<>>
    /\ panels' = <<>>
    /\ UNCHANGED <<inputs, pil_strict, image_data_list, output_path, client>>

SaveIndividualCrops ==
    /\ \E fetch \in FetchChoices :
          \E stored \in {EnsureImages(fetch)} :
          \E result \in {save_individual_crops(stored, OutputDir, padding_percent,
                                                pil_strict)} :
              /\ images' = stored
              /\ fetched' = fetch
              /\ written' = result.files
              /\ raised' = result.exc
              /\ ret' = IF result.exc THEN None ELSE result.total_saved
    /\ op' = "save_individual_crops"
    /\ panels' = <<>>
    /\ UNCHANGED <<inputs, pil_strict, image_data_list, output_path, client>>

CreateVisualization ==
    /\ \E fetch \in FetchChoices :
          \E stored \in {EnsureImages(fetch)} :
          \E result \in {create_visualization(stored, output_path, padding_percent,
                                               pil_strict)} :
              /\ images' = stored
              /\ fetched' = fetch
              /\ panels' = result.panels
              /\ raised' = result.exc
              /\ ret' = IF result.exc THEN None ELSE TRUE
    /\ op' = "create_visualization"
    /\ written' = <<>>
    /\ UNCHANGED <<inputs, pil_strict, image_data_list, output_path, client>>

\* lines 478-500: it downloads if nothing is stored and writes no file
GetSummary ==
    /\ \E fetch \in FetchChoices :
          \E stored \in {EnsureImages(fetch)} :
              /\ images' = stored
              /\ fetched' = fetch
              /\ ret' = get_summary(image_data_list, stored)
    /\ op' = "get_summary"
    /\ raised' = FALSE
    /\ written' = <<>>
    /\ panels' = <<>>
    /\ UNCHANGED <<inputs, pil_strict, image_data_list, output_path, client>>

NextCropper ==
    \/ DownloadImages
    \/ SaveIndividualCrops
    \/ CreateVisualization
    \/ GetSummary

SpecCropper == InitCropper /\ [][NextCropper]_vars

\* the bulk operations and the two per-annotation methods, which a caller may
\* give any annotation of its records
NextVisible ==
    \/ DownloadImages
    \/ SaveIndividualCrops
    \/ CreateVisualization
    \/ CallCropAnnotation
    \/ CallDrawAnnotation

SpecVisible == InitVisible /\ [][NextVisible]_vars

\* every operation of the engine, in any order
NextFrame ==
    \/ CallFlattenPoints
    \/ CallDenormalize
    \/ CallGetBoundingBox
    \/ CallExpandBbox
    \/ CallCropAnnotation
    \/ CallDrawAnnotation
    \/ DownloadImages
    \/ SaveIndividualCrops
    \/ CreateVisualization
    \/ GetSummary

SpecFrame == InitFrame /\ [][NextFrame]_vars

\* the bulk operations and the per-annotation methods on a malformed annotation
SpecMalformed == InitMalformed /\ [][NextVisible]_vars

\* a client just constructed (line 304: self.project = {})
InitClient ==
    /\ InitNoClient
    /\ annotation = RectAnn
    /\ image = SrcImage
    /\ image_width = 200
    /\ image_height = 200
    /\ padding_percent = 20
    /\ min_size = DefaultMinSize
    /\ bbox = DefaultBox
    /\ crop_bbox = None
    /\ pil_strict = TRUE
    /\ InitNoCropper
    /\ InitCall

\* the client as a call finds it
CurrentSelf == Self(project, s3_base_url, aws_region, bucket)

\* a client call that ended as outcome says
ClientEnds(name, args, resps, outcome) ==
    /\ op' = name
    /\ call' = Call(args, resps)
    /\ raised' = outcome.exc
    /\ error' = outcome.error
    /\ ret' = outcome.value
    /\ sent' = outcome.sent
    /\ UNCHANGED <<inputs, pil_strict, cropper>>

CallRequest ==
    /\ UNCHANGED settings
    /\ \E req_type \in RequestTypes, res \in AnyResponses :
           ClientEnds("request", <<req_type>>, <<res>>,
                      request(<<"project">>, req_type, NoData, res))

CallUpdateDatasetImages ==
    /\ UNCHANGED settings
    /\ \E dataset_id \in {8, 9}, action \in ActionInputs, image_ids \in ImageIdInputs,
          res \in Responses :
           ClientEnds("update_dataset_images", <<dataset_id, action, image_ids>>, <<res>>,
                      update_dataset_images(dataset_id, action, image_ids, res))

CallSetProject ==
    \E project_id \in {1, 2}, res \in Responses :
        \E outcome \in {set_project(CurrentSelf, project_id, res)} :
            /\ op' = "set_project"
            /\ call' = Call(<<project_id>>, <<res>>)
            /\ raised' = outcome.exc
            /\ error' = outcome.error
            /\ ret' = outcome.value
            /\ sent' = outcome.sent
            /\ project' = outcome.self.project
            /\ s3_base_url' = outcome.self.s3_base_url
            /\ aws_region' = outcome.self.aws_region
            /\ bucket' = outcome.self.bucket
            /\ UNCHANGED <<inputs, pil_strict, cropper>>

CallAddRegion ==
    /\ UNCHANGED settings
    /\ \E res \in Responses :
           ClientEnds("add_region", <<"North Tower">>, <<res>>,
                      add_region(project, "North Tower", res))

CallAddAssets ==
    /\ UNCHANGED settings
    /\ \E res \in Responses :
           ClientEnds("add_assets", <<>>, <<res>>,
                      add_assets(project, [asset_type |-> 1, assets |-> <<>>], res))

CallUploadImages ==
    /\ UNCHANGED settings
    /\ \E image_paths \in {<<>>, <<"bridge1.jpg">>}, res \in Responses :
           \E uploaded \in [1..Len(image_paths) -> BOOLEAN] :
               ClientEnds("upload_images", <<image_paths, uploaded>>, <<res>>,
                          upload_images(CurrentSelf, image_paths, uploaded, res))

CallGetImages ==
    /\ UNCHANGED settings
    /\ \E image_ids \in {AllImages, TheseImages(<<>>), TheseImages(<<7>>)},
          resps \in [1..1 -> ImageResponses] :
           ClientEnds("get_images", <<image_ids>>, resps,
                      get_images(project, image_ids, resps))

CallGetAnnotations ==
    /\ UNCHANGED settings
    /\ \E image_id \in {[given |-> FALSE, id |-> 0], [given |-> TRUE, id |-> 7]},
          resps \in [1..2 -> ImageResponses] :
           ClientEnds("get_annotations", <<image_id>>, resps,
                      get_annotations(project, image_id, resps))

\* request itself and an operation that needs no project
NextRequest ==
    \/ CallRequest
    \/ CallUpdateDatasetImages

SpecRequest == InitClient /\ [][NextRequest]_vars

\* set_project and the operations on the current project
NextClient ==
    \/ CallSetProject
    \/ CallAddRegion
    \/ CallAddAssets
    \/ CallUploadImages
    \/ CallGetImages
    \/ CallGetAnnotations

SpecClient == InitClient /\ [][NextClient]_vars

\* create_visualization on every output path
NextPath == CreateVisualization

SpecPath == InitPath /\ [][NextPath]_vars

-----------------------------------------------------------------------------
(* Properties of expand_bbox, under SpecExpand *)

ExpandCalled == op = "expand_bbox"

EdgeCase ==
    /\ ExpandCalled
    /\ bbox = <<2, 2, 7, 7>>
    /\ image_width = 1000 /\ image_height = 1000
    /\ min_size = 50 /\ padding_percent = 0

\* C1 as stated: expand on the box (2,2,7,7) in a 1000x1000 image with
\* minSize 50 and no padding returns x_min = 0, x_max = 52, y_min = 0,
\* y_max = 52.
C1_EdgeWidth52 ==
    EdgeCase => ret[1] = 0 /\ ret[3] = 52 /\ ret[2] = 0 /\ ret[4] = 52

\* C1 amended: that call returns (0, 0, 29, 29): the box is recentred on its
\* midpoint 4 to (-21, 29) and only the low side is cut by the clamp, so the
\* final width is 29, below minSize.
C1_EdgeWidth29 ==
    EdgeCase => ret = <<0, 0, 29, 29>>

C1_Witness == EdgeCase /\ ret[3] - ret[1] < min_size

MidX == (bbox[1] + bbox[3]) \div 2

MidY == (bbox[2] + bbox[4]) \div 2

InteriorCase ==
    /\ ExpandCalled
    /\ min_size = 50 /\ padding_percent = 0
    /\ bbox[3] - bbox[1] < 50 /\ bbox[4] - bbox[2] < 50
    /\ MidX >= 25 /\ MidX + 25 <= image_width
    /\ MidY >= 25 /\ MidY + 25 <= image_height

\* C2: with minSize 50 and no padding, a box narrower and shorter than 50
\* whose midpoint (cx, cy) is at least 25 pixels from every image edge
\* expands to exactly (cx-25, cy-25, cx+25, cy+25); (40,40,45,45) in a
\* 1000x1000 image gives (17,17,67,67).
C2_InteriorMinSize ==
    /\ InteriorCase => ret = <<MidX - 25, MidY - 25, MidX + 25, MidY + 25>>
    /\ (InteriorCase /\ bbox = <<40, 40, 45, 45>> /\ image_width = 1000
            /\ image_height = 1000) => ret = <<17, 17, 67, 67>>

C2_Witness ==
    /\ InteriorCase
    /\ bbox = <<40, 40, 45, 45>> /\ image_width = 1000 /\ image_height = 1000
    /\ ret = <<17, 17, 67, 67>>

-----------------------------------------------------------------------------
(* Properties of the geometry of a points list, under SpecPoints *)

DenormalizeCalled == op = "denormalize_coordinates"

BoundingBoxCalled == op = "get_bounding_box"

\* the number of coordinate values a points list holds
RECURSIVE ValueCount(_)
ValueCount(ps) ==
    IF ps = <<>> THEN 0
    ELSE (IF Head(ps).list THEN Len(Head(ps).vs) ELSE 1) + ValueCount(Tail(ps))

\* clamp(v, 0, 1) and floor(v * dim), on rationals
Clamp01(v) == IF v.n < 0 THEN Rat(0, 1) ELSE IF v.n > v.d THEN Rat(1, 1) ELSE v

FloorMul(v, dim) == (v.n * dim) \div v.d

SetMin(S) == CHOOSE m \in S : \A x \in S : m <= x

SetMax(S) == CHOOSE m \in S : \A x \in S : m >= x

Between(lo, v, hi) == IF v < lo THEN lo ELSE IF v > hi THEN hi ELSE v

\* C5: denormalize maps every consecutive pair (xNorm, yNorm) of the flattened
\* input to (floor(clamp(xNorm) * width), floor(clamp(yNorm) * height)), in
\* input order; out-of-range values are clamped, so every x lies in [0, width]
\* and every y in [0, height].
C5_DenormalizePairs ==
    DenormalizeCalled =>
        LET flat == flatten_points(annotation.points)
            n == Len(flat) \div 2
        IN  /\ Len(ret) = 2 * n
            /\ \A k \in 1..n :
                  /\ ret[2 * k - 1] = FloorMul(Clamp01(flat[2 * k - 1]), image_width)
                  /\ ret[2 * k] = FloorMul(Clamp01(flat[2 * k]), image_height)
                  /\ 0 <= ret[2 * k - 1] /\ ret[2 * k - 1] <= image_width
                  /\ 0 <= ret[2 * k] /\ ret[2 * k] <= image_height

\* an x above 1 and a y below 0 were clamped, next to an interior point
C5_Witness ==
    /\ DenormalizeCalled
    /\ Len(ret) = 4
    /\ flatten_points(annotation.points)[1] = Rat(12, 10)
    /\ flatten_points(annotation.points)[2] = Rat(-3, 10)
    /\ ret[1] = image_width /\ ret[2] = 0
    /\ 0 < ret[3] /\ ret[3] < image_width

OddExample == AsFlat(<<Rat(1, 10), Rat(2, 10), Rat(9, 10)>>)

\* C6: on a flattened input of odd length n denormalize drops only the last
\* value and returns what it returns on the first n-1 values; the output has
\* length 2*floor(n/2); [0.1, 0.2, 0.9] on a 100x100 image yields [10, 20].
C6_OddLengthDropsLast ==
    DenormalizeCalled =>
        LET flat == flatten_points(annotation.points)
            n == Len(flat)
        IN  /\ Len(ret) = 2 * (n \div 2)
            /\ n % 2 = 1 =>
                  ret = denormalize_coordinates(AsFlat(SubSeq(flat, 1, n - 1)),
                                                image_width, image_height)
            /\ (annotation.points = OddExample /\ image_width = 100
                    /\ image_height = 100) => ret = <<10, 20>>

C6_Witness ==
    /\ DenormalizeCalled
    /\ annotation.points = OddExample
    /\ image_width = 100 /\ image_height = 100
    /\ ret = <<10, 20>>

\* [x1, y1, x2, y2, ...] with every pair complete
IsFlatPairs(ps) == Len(ps) % 2 = 0 /\ \A k \in 1..Len(ps) : ~ps[k].list

\* [[x1, y1], [x2, y2], ...]
IsNestedPairs(ps) == \A k \in 1..Len(ps) : ps[k].list /\ Len(ps[k].vs) = 2

FlatToNested(ps) ==
    [k \in 1..(Len(ps) \div 2) |-> Nested(<<ps[2 * k - 1].v, ps[2 * k].v>>)]

NestedToFlat(ps) ==
    [k \in 1..(2 * Len(ps)) |-> Scalar(ps[(k + 1) \div 2].vs[2 - (k % 2)])]

\* the same coordinate pairs in the other representation
OtherForm(ps) == IF IsNestedPairs(ps) THEN NestedToFlat(ps) ELSE FlatToNested(ps)

\* C7: a sequence of coordinate pairs gives identical results from
\* flattenPoints, denormalize, boundingBox and cropAnnotation whether it is
\* supplied as nested pairs or as the flat sequence.
C7_NestedEqualsFlat ==
    (IsFlatPairs(annotation.points) \/ IsNestedPairs(annotation.points)) =>
        LET other == OtherForm(annotation.points)
        IN  /\ op = "flatten_points" => ret = flatten_points(other)
            /\ DenormalizeCalled =>
                  ret = denormalize_coordinates(other, image_width, image_height)
            /\ BoundingBoxCalled =>
                  ret = get_bounding_box(other, image_width, image_height)
            /\ op = "crop_annotation" =>
                  /\ ~raised
                  /\ ret = crop_annotation(image, [annotation EXCEPT !.points = other],
                                           image_width, image_height,
                                           padding_percent).value

C7_Witness ==
    /\ IsNestedPairs(annotation.points)
    /\ Len(annotation.points) = 2
    /\ op = "crop_annotation"
    /\ ret[2] # None

PixelXs == LET px == denormalize_coordinates(annotation.points, image_width, image_height)
           IN  {px[2 * k - 1] : k \in 1..(Len(px) \div 2)}

PixelYs == LET px == denormalize_coordinates(annotation.points, image_width, image_height)
           IN  {px[2 * k] : k \in 1..(Len(px) \div 2)}

\* C8: for an input with at least one complete pair and width, height >= 1,
\* boundingBox returns the minimum and maximum of the denormalized x values
\* and of the denormalized y values, each clamped into [0, width-1] resp.
\* [0, height-1]; so 0 <= x_min <= x_max <= width-1 and likewise for y.
C8_BoundingBoxMinMax ==
    (BoundingBoxCalled /\ ValueCount(annotation.points) >= 2
        /\ image_width >= 1 /\ image_height >= 1) =>
        /\ ret # None
        /\ ret = <<Between(0, SetMin(PixelXs), image_width - 1),
                   Between(0, SetMin(PixelYs), image_height - 1),
                   Between(0, SetMax(PixelXs), image_width - 1),
                   Between(0, SetMax(PixelYs), image_height - 1)>>
        /\ 0 <= ret[1] /\ ret[1] <= ret[3] /\ ret[3] <= image_width - 1
        /\ 0 <= ret[2] /\ ret[2] <= ret[4] /\ ret[4] <= image_height - 1

\* two points, the larger x cut from width to width - 1
C8_Witness ==
    /\ BoundingBoxCalled
    /\ ValueCount(annotation.points) = 4
    /\ SetMax(PixelXs) = image_width
    /\ ret[3] = image_width - 1
    /\ ret[1] < ret[3] /\ ret[2] < ret[4]

\* C9: boundingBox returns None exactly when denormalization yields fewer
\* than 2 pixel values, that is when the input holds no complete pair; a
\* single point gives a degenerate box (x_max = x_min, y_max = y_min), which
\* boundingBox does not reject.
C9_NoneIffNoPair ==
    BoundingBoxCalled =>
        /\ ret = None <=>
              Len(denormalize_coordinates(annotation.points, image_width,
                                          image_height)) < 2
        /\ ret = None <=> ValueCount(annotation.points) < 2
        /\ ValueCount(annotation.points) \in {2, 3} =>
              ret # None /\ ret[3] = ret[1] /\ ret[4] = ret[2]

C9_Witness ==
    /\ BoundingBoxCalled
    /\ ValueCount(annotation.points) = 2
    /\ ret # None /\ ret[3] = ret[1] /\ ret[4] = ret[2]

-----------------------------------------------------------------------------
(* Properties of crop and draw on annotation records, under SpecAnnot *)

CropCalled == op = "crop_annotation"

DrawCalled == op = "draw_annotation_on_image"

\* C3 as stated: for every annotation record, records missing the points or
\* the id field included, cropAnnotation returns (crop, expandedBox) or
\* (None, None) and lets no exception reach the caller.
C3_CropNeverRaises ==
    CropCalled =>
        /\ ~raised
        /\ \/ ret = <<NoneImage, None>>
           \/ ~ret[1].isNone /\ ret[2] # None

\* C4 as stated: for every annotation record, one missing id, shape, points
\* or annotation_class or with a malformed color included, renderOverlay
\* raises nothing and returns an image: the source image itself when drawing
\* failed, a copy of it otherwise.
C4_DrawNeverRaises ==
    DrawCalled =>
        /\ ~raised
        /\ \/ ret = image
           \/ ~image.isNone /\ ret.obj = ImageCopy(image).obj

-----------------------------------------------------------------------------
(* Properties of crop_annotation's result, under SpecAnnot *)

\* the call had an image and the keys its body reads
CropWellFormed ==
    /\ CropCalled
    /\ ~image.isNone
    /\ HasKey(annotation, "id")
    /\ HasKey(annotation, "points")

\* what the crop box should be: the expansion, by the padding and a minimum
\* size of 50, of the annotation's pixel bounding box; None when there is no
\* bounding box or the expansion has no width or no height
ExpectedCropBox ==
    LET b == get_bounding_box(annotation.points, image_width, image_height)
    IN  IF b = None THEN None
        ELSE LET e == expand_bbox(b, image_width, image_height, padding_percent, 50)
             IN  IF e[3] <= e[1] \/ e[4] <= e[2] THEN None ELSE e

\* C11: a crop of a present image returns, on success, the expanded bounding
\* box (minimum size 50) and a crop whose width and height are that box's
\* extents; it returns (None, None) when the annotation has no bounding box or
\* the expanded box is degenerate.
C11_CropBoxAndSize ==
    CropWellFormed =>
        /\ ~raised
        /\ IF ExpectedCropBox = None
           THEN ret = <<NoneImage, None>>
           ELSE /\ ret[2] = ExpectedCropBox
                /\ ~ret[1].isNone
                /\ CropSize(ret[1]) = <<ExpectedCropBox[3] - ExpectedCropBox[1],
                                        ExpectedCropBox[4] - ExpectedCropBox[2]>>
                /\ CropSize(ret[1])[1] > 0
                /\ CropSize(ret[1])[2] > 0

\* a crop succeeded on a box that the minimum size had to widen
C11_Witness ==
    /\ CropWellFormed
    /\ ret[2] # None
    /\ LET b == get_bounding_box(annotation.points, image_width, image_height)
       IN  b[3] - b[1] < 50 /\ ret[2][3] - ret[2][1] >= 50

\* a crop returned (None, None) because the expanded box was degenerate
C11_DegenerateReached ==
    /\ CropWellFormed
    /\ ret = <<NoneImage, None>>
    /\ get_bounding_box(annotation.points, image_width, image_height) # None

-----------------------------------------------------------------------------
(* Properties of draw_annotation_on_image's coordinates, under SpecAnnot *)

\* the call had an image, every key the body reads and a colour that parses
DrawWellFormed ==
    /\ DrawCalled
    /\ ~image.isNone
    /\ annotation.keys = AllKeys
    /\ annotation.annotation_class.has_color
    /\ ~ParseColor(annotation.annotation_class.color).exc

\* the body returned its own image: the handler did not run
DrawCompleted == DrawWellFormed /\ ~raised /\ ret.obj # image.obj

\* what the annotation draws in full-image pixel coordinates
FullImageDrawing ==
    DrawShape(annotation.shape,
              denormalize_coordinates(annotation.points, image_width, image_height),
              ParseColor(annotation.annotation_class.color).value, FALSE).value

\* a primitive moved by (-dx, -dy)
Shifted(prim, dx, dy) ==
    [prim EXCEPT !.coords = [k \in 1..Len(@) |-> <<@[k][1] - dx, @[k][2] - dy>>]]

\* C12: drawn on a crop, an annotation's coordinates are its full-image pixel
\* coordinates (denormalized against the full image's declared size) minus the
\* crop's origin; with no offset box they are the full-image coordinates.
C12_CropSpaceCoordinates ==
    DrawCompleted =>
        ret.drawn = image.drawn \o
            [k \in 1..Len(FullImageDrawing) |->
                IF crop_bbox = None THEN FullImageDrawing[k]
                ELSE Shifted(FullImageDrawing[k], crop_bbox[1], crop_bbox[2])]

\* something was drawn on a crop whose origin differs on the two axes
C12_Witness ==
    /\ DrawCompleted
    /\ crop_bbox # None
    /\ crop_bbox[1] # crop_bbox[2]
    /\ ret.drawn # <<>>
    /\ ret.drawn # FullImageDrawing

-----------------------------------------------------------------------------
(* Properties of the shape dispatch, under SpecAnnot *)

\* the pixel values the shape is drawn from
DrawCoords ==
    LET pc == denormalize_coordinates(annotation.points, image_width, image_height)
    IN  IF crop_bbox = None THEN pc ELSE OffsetCoords(pc, crop_bbox)

\* the point count meets the minimum of the annotation's shape
MinimumMet ==
    IF annotation.shape = 3 THEN Len(DrawCoords) >= 4
    ELSE IF annotation.shape = 4 THEN Len(DrawCoords) \div 2 >= 3
    ELSE IF annotation.shape = 8 THEN Len(DrawCoords) >= 2
    ELSE Len(DrawCoords) \div 2 >= 2

\* C13: a draw of a well-formed annotation adds a primitive to the returned
\* image if and only if the point count meets the shape's minimum (4 values
\* for a Rectangle, 3 pairs for a Polygon, 2 values for a Point, 2 pairs for a
\* Line or any other shape); otherwise the returned image has the source's
\* pixels.
C13_DrawsIffMinimumMet ==
    DrawWellFormed =>
        /\ ~raised
        /\ IF MinimumMet
           THEN Len(ret.drawn) = Len(image.drawn) + 1
           ELSE ret.drawn = image.drawn

\* the Rectangle [0,0,0.5,0.5] on 200x200 drew the rectangle (0,0)-(100,100)
C13_RectangleExample ==
    /\ DrawCompleted
    /\ annotation.shape = 3
    /\ annotation.points = AsFlat(<<Rat(0, 1), Rat(0, 1), Rat(5, 10), Rat(5, 10)>>)
    /\ image_width = 200 /\ image_height = 200 /\ crop_bbox = None
    /\ ret.drawn[1].kind = "rectangle"
    /\ ret.drawn[1].coords = <<<<0, 0>>, <<100, 100>>>>

\* the Point [0.5,0.5] on 200x200 drew the circle of radius 15 about (100,100)
C13_PointExample ==
    /\ DrawCompleted
    /\ annotation.shape = 8
    /\ annotation.points = AsFlat(<<Rat(5, 10), Rat(5, 10)>>)
    /\ image_width = 200 /\ image_height = 200 /\ crop_bbox = None
    /\ ret.drawn[1].kind = "ellipse"
    /\ ret.drawn[1].coords = <<<<85, 85>>, <<115, 115>>>>

-----------------------------------------------------------------------------
(* Properties of the image passed to draw_annotation_on_image, under SpecAnnot *)

\* a step that is a call of draw_annotation_on_image
DrawStep == op' = "draw_annotation_on_image"

\* C14: a draw never changes the image it is given, whether it draws, skips
\* or fails; a completed draw of a well-formed annotation is returned in an
\* image other than the source; and a draw repeated on the same source
\* returns the same result.
C14_SourceNeverMutated ==
    [][DrawStep =>
          /\ image' = image
          /\ (~raised' /\ ~image.isNone /\ ret'.drawn # image.drawn
                 => ret'.obj # image.obj)
          /\ (DrawCalled => (raised' = raised /\ ret' = ret))]_vars

\* a draw returned a new image with a primitive on it, the source has none
C14_Witness ==
    /\ DrawCompleted
    /\ ret.drawn # <<>>
    /\ image.drawn = <<>>
    /\ ret.obj # image.obj

-----------------------------------------------------------------------------
(* Properties of the visible flag, under SpecVisible *)

SaveCalled == op = "save_individual_crops"

VisualizeCalled == op = "create_visualization"

\* the annotations of stored pair i whose visible flag is false / is not false
Hidden(i) == SelectSeq(images[i].data.annotations, LAMBDA a : a.visible = "false")

Shown(i) == SelectSeq(images[i].data.annotations, LAMBDA a : a.visible # "false")

\* the crop of annotation a of stored pair i succeeds
Croppable(i, a) ==
    LET c == crop_annotation(images[i].img, a, images[i].data.info.width,
                             images[i].data.info.height, padding_percent)
    IN  ~c.exc /\ c.value[2] # None

\* the name of the crop file of annotation a of stored pair i
FileNameOf(i, a) == CropFileName(OutputDir, i, a.id, a.annotation_class.name)

\* what annotation a of stored pair i draws on the full image
DrawingOf(i, a) ==
    draw_annotation_on_image(SrcImage, a, images[i].data.info.width,
                             images[i].data.info.height, None, pil_strict).value.drawn

\* the stored pairs that have a panel, and the panel of pair i
PanelIndexes ==
    {i \in 1..Len(images) :
        \E k \in 1..Len(panels) : panels[k].path = PanelPath(output_path, i)}

PanelOf(i) ==
    panels[CHOOSE k \in 1..Len(panels) : panels[k].path = PanelPath(output_path, i)]

\* no crop file, tile or overlay primitive comes from an invisible annotation
NoHiddenInBulkOutput ==
    /\ SaveCalled =>
          \A i \in 1..Len(images) : \A j \in 1..Len(Hidden(i)) :
              \A k \in 1..Len(written) : written[k].name # FileNameOf(i, Hidden(i)[j])
    /\ VisualizeCalled =>
          \A i \in PanelIndexes : \A j \in 1..Len(Hidden(i)) :
              /\ \A k \in 1..Len(PanelOf(i).tiles) :
                    PanelOf(i).tiles[k].ann_id # Hidden(i)[j].id
              /\ \A k \in 1..Len(PanelOf(i).overlay.drawn) :
                    \A d \in 1..Len(DrawingOf(i, Hidden(i)[j])) :
                        PanelOf(i).overlay.drawn[k] # DrawingOf(i, Hidden(i)[j])[d]

\* a croppable annotation with no 'visible' key has its crop file and its tile
AbsentIsVisible ==
    /\ SaveCalled /\ ~raised =>
          \A i \in 1..Len(images) : \A j \in 1..Len(images[i].data.annotations) :
              LET a == images[i].data.annotations[j]
              IN  (~images[i].img.isNone /\ a.visible = "absent" /\ Croppable(i, a))
                      => \E k \in 1..Len(written) : written[k].name = FileNameOf(i, a)
    /\ VisualizeCalled /\ ~raised =>
          \A i \in 1..Len(images) : \A j \in 1..Len(images[i].data.annotations) :
              LET a == images[i].data.annotations[j]
              IN  (~images[i].img.isNone /\ a.visible = "absent" /\ Croppable(i, a))
                      => /\ i \in PanelIndexes
                         /\ \E k \in 1..Len(PanelOf(i).tiles) :
                               PanelOf(i).tiles[k].ann_id = a.id

\* C15 as stated: an annotation whose visible flag is false is never cropped
\* and never drawn by any operation, crop_annotation and
\* draw_annotation_on_image included; one with no visible field is treated
\* as visible.
C15_InvisibleNeverProcessed ==
    /\ (CropCalled /\ annotation.visible = "false")
          => (~raised /\ ret = <<NoneImage, None>>)
    /\ (DrawCalled /\ annotation.visible = "false")
          => (~raised /\ ret.drawn = image.drawn)
    /\ NoHiddenInBulkOutput
    /\ AbsentIsVisible

\* C15, amended: save_individual_crops and create_visualization never crop
\* or draw an annotation whose visible flag is false and treat an annotation
\* with no visible field as visible; crop_annotation and
\* draw_annotation_on_image process the annotation they are given whatever
\* its flag.
C15_BulkSkipsInvisible ==
    /\ NoHiddenInBulkOutput
    /\ AbsentIsVisible
    /\ (CropCalled /\ ~raised) =>
          ret = crop_annotation(image, [annotation EXCEPT !.visible = "true"],
                                image_width, image_height, padding_percent).value
    /\ (DrawCalled /\ ~raised) =>
          ret = draw_annotation_on_image(image,
                                         [annotation EXCEPT !.visible = "true"],
                                         image_width, image_height, crop_bbox,
                                         pil_strict).value

\* a panel was written for an image that has an invisible annotation and a
\* croppable one with no visible field
C15_Witness ==
    /\ VisualizeCalled
    /\ \E i \in PanelIndexes :
          /\ Len(Hidden(i)) > 0
          /\ \E j \in 1..Len(Shown(i)) :
                Shown(i)[j].visible = "absent" /\ Croppable(i, Shown(i)[j])

\* crop_annotation returned a crop of an invisible annotation
C15_HiddenCropped ==
    CropCalled /\ annotation.visible = "false" /\ ~raised /\ ret[2] # None

-----------------------------------------------------------------------------
(* Properties of download_images, under SpecCropper *)

DownloadCalled == op = "download_images"

\* the pair the last download stored for record idx of the list
StoredFor(idx) == images[Len(images) - Len(image_data_list) + idx]

\* C16: whichever fetches fail, download_images raises nothing and stores
\* one pair per record, in list order: (record, None) for a failed fetch and
\* (record, decoded image) for a successful one; it returns the stored list.
C16_DownloadIsolatesFailures ==
    DownloadCalled =>
        /\ ~raised
        /\ ret = images
        /\ Len(fetched) = Len(image_data_list)
        /\ Len(images) >= Len(image_data_list)
        /\ \A idx \in 1..Len(image_data_list) :
              /\ StoredFor(idx).data = image_data_list[idx]
              /\ fetched[idx] = "error" => StoredFor(idx).img = NoneImage
              /\ fetched[idx] # "error" =>
                    /\ ~StoredFor(idx).img.isNone
                    /\ StoredFor(idx).img.mode = fetched[idx]

\* a download of three records whose first fetch failed and whose later
\* fetches succeeded
C16_Witness ==
    /\ DownloadCalled
    /\ Len(image_data_list) = 3
    /\ fetched[1] = "error"
    /\ StoredFor(1).img.isNone
    /\ ~StoredFor(2).img.isNone
    /\ ~StoredFor(3).img.isNone

-----------------------------------------------------------------------------
(* Properties of save_individual_crops, under SpecCropper *)

\* the (stored pair, annotation) positions whose image was downloaded,
\* whose annotation is visible and whose crop succeeds
ValidCrops ==
    {p \in UNION {{<<i, j>> : j \in 1..Len(images[i].data.annotations)} :
                   i \in 1..Len(images)} :
        /\ ~images[p[1]].img.isNone
        /\ images[p[1]].data.annotations[p[2]].visible # "false"
        /\ Croppable(p[1], images[p[1]].data.annotations[p[2]])}

\* C17: save_individual_crops raises nothing and returns the number of
\* visible annotations of downloaded images whose crop succeeded; images
\* that failed to download, images with no visible annotation and
\* annotations that cannot be cropped are skipped and the rest is processed.
C17_SaveCountsValidCrops ==
    SaveCalled => (~raised /\ ret = Cardinality(ValidCrops))

\* the call processed images 1 and 3 of a batch whose image 2 has no visible
\* annotation, and returned the count of their valid crops
C17_BatchExample ==
    /\ SaveCalled
    /\ ~raised
    /\ image_data_list = <<MixedRecord, HiddenRecord, MixedRecord>>
    /\ \A i \in 1..3 : ~images[i].img.isNone
    /\ Len(images) = 3
    /\ ret = 4

\* a crop of an image that decoded with an alpha channel ended the call
C17_AlphaRaises ==
    /\ SaveCalled
    /\ raised
    /\ \E p \in ValidCrops : images[p[1]].img.mode = "RGBA"

-----------------------------------------------------------------------------
(* Properties of the crop files, under SpecCropper *)

\* the 1-based position in the input list of the record of stored pair i
InputPosition(i) == ((i - 1) % Len(image_data_list)) + 1

\* the file name the convention gives annotation j of stored pair i
ConventionName(i, j) ==
    LET a == images[i].data.annotations[j]
    IN  <<OutputDir, "/img", ToString(InputPosition(i)), "_crop_", ToString(a.id),
          "_", a.annotation_class.name, ".jpg">>

FileNames == {written[k].name : k \in 1..Len(written)}

\* C18: save_individual_crops writes exactly one file per successfully
\* cropped visible annotation, named {outputDir}/img{index}_crop_{id}_{class}.jpg
\* with index the 1-based position of the image in the input list, and no
\* other file; the records' annotation ids being unique within each image,
\* the number of distinct files equals the returned count.
C18_OneFilePerValidCrop ==
    SaveCalled =>
        /\ \A p \in ValidCrops :
              Cardinality({k \in 1..Len(written) :
                              written[k].name = ConventionName(p[1], p[2])}) = 1
        /\ FileNames = {ConventionName(p[1], p[2]) : p \in ValidCrops}
        /\ ~raised
        /\ Cardinality(FileNames) = ret

\* after a second download of a one-record list the file of the second
\* stored pair is named img2 although the list has one image
C18_IndexBeyondList ==
    /\ SaveCalled
    /\ ~raised
    /\ Len(image_data_list) = 1
    /\ \E k \in 1..Len(written) : written[k].name[3] = "2"

-----------------------------------------------------------------------------
(* Properties of the panels, under SpecCropper *)

\* the positions, in order, of the annotations of stored pair i that are
\* visible and whose crop succeeds
ValidOf(i) ==
    SelectSeq([j \in 1..Len(images[i].data.annotations) |-> j],
              LAMBDA j : <<i, j>> \in ValidCrops)

\* what the first k visible annotations of stored pair i draw on the full image
RECURSIVE DrawingsOf(_, _)
DrawingsOf(i, k) ==
    IF k = 0 THEN <<>> ELSE DrawingsOf(i, k - 1) \o DrawingOf(i, Shown(i)[k])

\* the box annotation a of stored pair i is cropped to
CropBoxOf(i, a) ==
    crop_annotation(images[i].img, a, images[i].data.info.width,
                    images[i].data.info.height, padding_percent).value[2]

\* C19: create_visualization writes a panel for a stored image iff it was
\* downloaded, has a visible annotation and at least one visible annotation
\* crops successfully; the panel has one tile per successfully cropped
\* visible annotation and an overlay of the full image on which every
\* visible annotation is drawn; the call returns True whatever was skipped.
C19_PanelPerCroppableImage ==
    VisualizeCalled =>
        /\ ~raised
        /\ ret = TRUE
        /\ Len(panels) = Cardinality(PanelIndexes)
        /\ \A i \in 1..Len(images) : i \in PanelIndexes <=> ValidOf(i) # <<>>
        /\ \A i \in PanelIndexes :
              /\ Len(PanelOf(i).tiles) = Len(ValidOf(i))
              /\ \A k \in 1..Len(ValidOf(i)) :
                    LET a == images[i].data.annotations[ValidOf(i)[k]]
                    IN  /\ PanelOf(i).tiles[k].ann_id = a.id
                        /\ PanelOf(i).tiles[k].img.region = CropBoxOf(i, a)
              /\ PanelOf(i).overlay.region = None
              /\ PanelOf(i).overlay.drawn = DrawingsOf(i, Len(Shown(i)))

\* of three stored images one was not downloaded and one has no visible
\* annotation; the third has a panel with fewer tiles than visible annotations
C19_Witness ==
    /\ VisualizeCalled
    /\ ret = TRUE
    /\ Len(images) = 3
    /\ Cardinality(PanelIndexes) = 1
    /\ \E i \in 1..3 : images[i].img.isNone
    /\ \E i \in 1..3 : ~images[i].img.isNone /\ Shown(i) = <<>>
    /\ \E i \in PanelIndexes :
          /\ Len(PanelOf(i).tiles) = 2
          /\ Len(Shown(i)) = 3
          /\ Len(PanelOf(i).overlay.drawn) = 2

-----------------------------------------------------------------------------
(* Properties of the panel path, under SpecPath *)

\* the position of the last c of the path, 0 when it has none
LastOf(path, c) ==
    LET at == {k \in 1..Len(path) : path[k] = c}
    IN  IF at = {} THEN 0 ELSE CHOOSE k \in at : \A j \in at : j <= k

\* the extension separator of the path's file name: the last '.' after the
\* last '/', 0 when the file name has none
ExtensionDot(path) ==
    IF LastOf(path, ".") > LastOf(path, "/") THEN LastOf(path, ".") ELSE 0

\* the path with '_image_i' inserted before the file name's extension, or
\* appended with the default extension when the file name has none
InsertedBeforeExtension(path, i) ==
    IF ExtensionDot(path) > 0
    THEN SubSeq(path, 1, ExtensionDot(path) - 1) \o <<"_image_", ToString(i), ".">>
             \o SubSeq(path, ExtensionDot(path) + 1, Len(path))
    ELSE path \o <<"_image_", ToString(i), ".", "p", "n", "g">>

\* C20: for every output path and every image that gets a panel, the panel's
\* path is the output path with '_image_i' inserted immediately before the
\* file extension, or appended (with the default extension) when the file
\* name has no extension, also when a directory of the path contains a dot.
C20_PanelPathBeforeExtension ==
    VisualizeCalled =>
        \A i \in 1..Len(images) :
            ValidOf(i) # <<>> =>
                \E k \in 1..Len(panels) :
                    panels[k].path = InsertedBeforeExtension(output_path, i)

\* a panel of an output path whose file name has an extension is where the
\* claim puts it
C20_ExtensionCase ==
    /\ VisualizeCalled
    /\ ExtensionDot(output_path) > 0
    /\ Len(panels) = 2
    /\ panels[2].path = InsertedBeforeExtension(output_path, 2)

\* a panel of an output path with a dot in a directory and none in the file
\* name is not where the claim puts it
C20_DotInDirectory ==
    /\ VisualizeCalled
    /\ LastOf(output_path, ".") > 0
    /\ ExtensionDot(output_path) = 0
    /\ Len(panels) > 0
    /\ panels[1].path # InsertedBeforeExtension(output_path, 1)

-----------------------------------------------------------------------------
(* Properties of get_summary, under SpecCropper *)

SummaryCalled == op = "get_summary"

\* the positions of the input list whose download, the last made, ended so
DownloadedRecords(ok) ==
    {i \in 1..Len(image_data_list) : (fetched[i] # "error") = ok}

\* the per-image entry the input record at position i should get
EntryFor(i) ==
    [index |-> i,
     downloaded |-> fetched[i] # "error",
     width |-> image_data_list[i].info.width,
     height |-> image_data_list[i].info.height,
     total_annotations |-> Len(image_data_list[i].annotations),
     visible_annotations |->
         Cardinality({k \in 1..Len(image_data_list[i].annotations) :
                         image_data_list[i].annotations[k].visible # "false"})]

\* C21: get_summary reports total = the number of input image records,
\* succeeded and failed = the numbers of records whose download succeeded and
\* failed, and one per-image entry per input record, in input order with a
\* 1-based index, carrying downloaded, the declared width and height, the
\* total annotation count and the visible annotation count, visible <= total.
C21_SummaryPerInputRecord ==
    SummaryCalled =>
        /\ ~raised
        /\ ret.total_images = Len(image_data_list)
        /\ ret.successful_downloads = Cardinality(DownloadedRecords(TRUE))
        /\ ret.failed_downloads = Cardinality(DownloadedRecords(FALSE))
        /\ Len(ret.images) = Len(image_data_list)
        /\ \A i \in 1..Len(image_data_list) :
              /\ ret.images[i] = EntryFor(i)
              /\ ret.images[i].visible_annotations <= ret.images[i].total_annotations

\* after a second download the summary of a list has more entries than the
\* list has records, and more downloads than images
C21_MoreEntriesThanRecords ==
    /\ SummaryCalled
    /\ Len(ret.images) > ret.total_images
    /\ ret.successful_downloads + ret.failed_downloads > ret.total_images

\* a summary of three records, one of which failed to download, with an
\* image holding fewer visible annotations than annotations
C21_MixedSummary ==
    /\ SummaryCalled
    /\ Len(images) = Len(image_data_list)
    /\ ret.total_images = 3
    /\ ret.successful_downloads = 2
    /\ ret.failed_downloads = 1
    /\ \E i \in 1..3 : ret.images[i].visible_annotations < ret.images[i].total_annotations

-----------------------------------------------------------------------------
(* The caller's records, under SpecFrame *)

GeometricOps ==
    {"flatten_points", "denormalize_coordinates", "get_bounding_box",
     "expand_bbox", "crop_annotation", "draw_annotation_on_image"}

\* the caller's records: the annotation and sizes given to the per-annotation
\* methods, and the image record list given to the cropper
CallerRecords == <<arguments, image_data_list>>

\* every stored pair holds the record of the input list it was made for,
\* equal to that record as the caller gave it
PairsHoldInputRecords(stored) ==
    \A k \in 1..Len(stored) : stored[k].data = image_data_list[InputPosition(k)]

\* the same geometric operation called twice in a row
RepeatedGeometry == op \in GeometricOps /\ op' = op

-----------------------------------------------------------------------------
(* Properties of update_dataset_images, under SpecRequest *)

UpdateCalled == op = "update_dataset_images"

ActionMessage == Exception("ValueError", <<"Action must be either 'add' or 'remove'">>)

\* C23: update_dataset_images called with an action other than "add" or
\* "remove" raises ValueError with the message "Action must be either 'add'
\* or 'remove'" before any HTTP request is sent, for every dataset id and
\* image id list; with "add" or "remove" it sends exactly one PUT to
\* datasets/{dataset_id} carrying that action and the image ids.
C23_ActionCheckedBeforeRequest ==
    UpdateCalled =>
        LET dataset_id == call.args[1]
            action == call.args[2]
            image_ids == call.args[3]
        IN  IF action \in {"add", "remove"}
            THEN /\ Len(sent) = 1
                 /\ sent[1].method = "PUT"
                 /\ sent[1].url_suffix = <<"datasets/", ToString(dataset_id)>>
                 /\ sent[1].data = [action |-> action, image_ids |-> image_ids]
            ELSE /\ raised
                 /\ error = ActionMessage
                 /\ sent = <<>>

\* the call of the test: an invalid action and one image id
C23_Witness ==
    /\ UpdateCalled
    /\ call.args[2] = "invalid_action"
    /\ call.args[3] = <<123>>
    /\ raised
    /\ error = ActionMessage
    /\ sent = <<>>

\* "remove" sent in one PUT to datasets/9
C23_RemoveSent ==
    /\ UpdateCalled
    /\ call.args = <<9, "remove", <<660068, 660069>>>>
    /\ ~raised
    /\ Len(sent) = 1
    /\ sent[1].method = "PUT"

-----------------------------------------------------------------------------
(* Properties of the current project, under SpecClient *)

\* the operations documented to raise ValueError when no project is set
ProjectOps ==
    {"add_region", "get_images", "get_annotations", "add_assets", "upload_images"}

\* no set_project call has succeeded yet: only a call that succeeds assigns
\* the bucket (line 622)
NeverSucceeded == bucket = "unset"

NotSetMessages == {<<"Project not set">>, <<"Project not set yet">>}

\* C24: on a client on which no set_project call has yet succeeded, every
\* operation documented to raise ValueError when no project is set raises
\* ValueError and sends no HTTP request; once a set_project call has
\* succeeded these operations no longer fail with 'Project not set'.
C24_ProjectRequired ==
    [][op' \in ProjectOps =>
          IF NeverSucceeded
          THEN raised' /\ error'.type = "ValueError" /\ sent' = <<>>
          ELSE ~(raised' /\ error'.msg \in NotSetMessages)]_vars

\* add_assets on a new client raises KeyError
C24_AddAssetsKeyError ==
    /\ op = "add_assets"
    /\ project = EmptyDict
    /\ NeverSucceeded
    /\ raised
    /\ error = KeyError("id")
    /\ sent = <<>>

\* after a set_project call that raised, add_region sends its request
C24_RequestWithoutProjectSet ==
    /\ op = "add_region"
    /\ NeverSucceeded
    /\ Len(sent) = 1

\* the guard at work: get_images on a new client
C24_GuardRaises ==
    /\ op = "get_images"
    /\ project = EmptyDict
    /\ raised
    /\ error = Exception("ValueError", <<"Project not set yet">>)
    /\ sent = <<>>

-----------------------------------------------------------------------------
(* Properties of request, under SpecRequest *)

RequestCalled == op = "request"

\* the answer the request met
Answer == call.resps[1]

\* C25: T2D2.request raises ValueError for every response whose status code
\* is neither 200 nor 201, an unauthorized one included; for status 200 or
\* 201 it returns the parsed JSON body, or {"content": raw bytes} when the
\* body is not JSON, without raising.  The request is sent in both cases.
C25_StatusDecidesOutcome ==
    RequestCalled =>
        /\ Len(sent) = 1
        /\ sent[1].method = call.args[1]
        /\ IF Answer.status_code = 200 \/ Answer.status_code = 201
           THEN /\ ~raised
                /\ error = NoError
                /\ Answer.is_json => ret = Answer.body
                /\ ~Answer.is_json =>
                      ret = [keys |-> {"content"}, content |-> Answer.content]
           ELSE /\ raised
                /\ error.type = "ValueError"

\* status 201 with a body that is not JSON: the raw content comes back
C25_Witness ==
    /\ RequestCalled
    /\ Answer.status_code = 201
    /\ ~Answer.is_json
    /\ ~raised
    /\ ret.content = "<html>"

\* an unauthorized GET raises ValueError
C25_Unauthorized ==
    /\ RequestCalled
    /\ call.args[1] = "GET"
    /\ Answer.status_code = 401
    /\ raised
    /\ error = Exception("ValueError", <<"Error code received: ", "401">>)

-----------------------------------------------------------------------------
(* Properties of the minimum-size step, under SpecMinSize *)

\* expand_bbox called without padding: the boxes of SpecMinSize are far from
\* the image's edges, so the result is the box of the minimum-size step
MinSizeStepShown == ExpandCalled /\ padding_percent = 0

\* C26: for every minSize >= 1, odd values included, and every box narrower
\* than minSize, the box of expand's minimum-size step, before padding and
\* clamping, has x_max - x_min exactly minSize and is centred on the original
\* box's horizontal midpoint; likewise, independently, for the height.
C26_MinSizeStepExact ==
    MinSizeStepShown =>
        /\ bbox[3] - bbox[1] < min_size =>
              /\ ret[3] - ret[1] = min_size
              /\ (ret[1] + ret[3]) \div 2 = MidX
        /\ bbox[4] - bbox[2] < min_size =>
              /\ ret[4] - ret[2] = min_size
              /\ (ret[2] + ret[4]) \div 2 = MidY

\* minSize 51 gives a box 50 wide
C26_OddMinSizeShort ==
    /\ MinSizeStepShown
    /\ min_size = 51
    /\ bbox = <<440, 440, 445, 445>>
    /\ ret = <<417, 417, 467, 467>>

\* minSize 50 gives a box 50 wide, centred on the midpoint
C26_EvenMinSizeExact ==
    /\ MinSizeStepShown
    /\ min_size = 50
    /\ bbox = <<440, 440, 445, 445>>
    /\ ret = <<417, 417, 467, 467>>

-----------------------------------------------------------------------------
(* Annotations missing a required field, under SpecMalformed *)

Has(key) == HasKey(annotation, key)

\* the annotation lacks a required field
FieldMissing == \E key \in AllKeys : ~Has(key)

\* a stored pair holds an image: the bulk operations reach its annotation
SomeDownloaded == \E k \in 1..Len(images) : ~images[k].img.isNone

C27_BulkRaises ==
    /\ SaveCalled
    /\ ~Has("annotation_class")
    /\ SomeDownloaded
    /\ raised

-----------------------------------------------------------------------------
(* Properties of the crop box, under SpecCropBox *)

\* the points hold at least one complete coordinate pair
HasCompletePair == ValueCount(annotation.points) >= 2

\* C28: for every image with declared width >= 1 and height >= 1, every
\* paddingPercent >= 0 and every annotation whose points hold at least one
\* complete coordinate pair, the expanded box computed inside cropAnnotation
\* satisfies 0 <= x_min < x_max <= width and 0 <= y_min < y_max <= height:
\* the degenerate-box branch is not taken and the annotation, a single point
\* included, is cropped successfully.
C28_CropBoxNeverDegenerate ==
    (CropCalled /\ image_width >= 1 /\ image_height >= 1 /\ padding_percent >= 0
         /\ HasCompletePair) =>
        /\ ~raised
        /\ ~ret[1].isNone
        /\ ret[2] # None
        /\ 0 <= ret[2][1] /\ ret[2][1] < ret[2][3] /\ ret[2][3] <= image_width
        /\ 0 <= ret[2][2] /\ ret[2][2] < ret[2][4] /\ ret[2][4] <= image_height
        /\ ret[1].region = ret[2]

\* a single point at the far corner of a one-pixel image is cropped
C28_Witness ==
    /\ CropCalled
    /\ annotation.points = AsFlat(<<Rat(12, 10), Rat(12, 10)>>)
    /\ image_width = 1 /\ image_height = 1
    /\ ret[2] = <<0, 0, 1, 1>>
    /\ ~ret[1].isNone

\* a single point in the middle of a 60x40 image, with the large padding
C28_SinglePointPadded ==
    /\ CropCalled
    /\ annotation.points = AsNested(<<Rat(5, 10), Rat(5, 10)>>)
    /\ image_width = 60 /\ image_height = 40
    /\ padding_percent = 150
    /\ ret[2] = <<0, 0, 60, 40>>

-----------------------------------------------------------------------------
(* The stored image list, under SpecCropper *)

\* the stored list holds exactly one entry per input record, in input order
OneEntryPerRecord(stored) ==
    /\ Len(stored) = Len(image_data_list)
    /\ \A i \in 1..Len(image_data_list) : stored[i].data = image_data_list[i]

\* save_individual_crops called twice in a row, neither call raising
SaveRepeated ==
    /\ SaveCalled /\ ~raised
    /\ op' = "save_individual_crops" /\ ~raised'

\* C29: after any sequence of download_images, get_summary,
\* save_individual_crops and create_visualization calls on one cropper, the
\* stored image list holds exactly one entry per input image record, in input
\* order; so get_summary has successful_downloads + failed_downloads =
\* total_images, and save_individual_crops repeated returns the same count
\* and the same file paths.
C29_OneStoredEntryPerRecord ==
    [][/\ OneEntryPerRecord(images')
       /\ op' = "get_summary" =>
             ret'.successful_downloads + ret'.failed_downloads = ret'.total_images
       /\ SaveRepeated =>
             /\ ret' = ret
             /\ [k \in 1..Len(written') |-> written'[k].name]
                    = [k \in 1..Len(written) |-> written[k].name]]_vars

\* download_images called twice on a list of one record: two stored entries
C29_DuplicateEntries ==
    /\ DownloadCalled
    /\ Len(image_data_list) = 1
    /\ Len(images) = 2
    /\ images[1].data = images[2].data

\* a summary whose download counts exceed its total
C29_CountsExceedTotal ==
    /\ SummaryCalled
    /\ ret.total_images = 1
    /\ ret.successful_downloads + ret.failed_downloads = 2

-----------------------------------------------------------------------------
(* A set_project call that raises, under SpecClient *)

SetProjectCalled == op = "set_project"

\* the storage settings are those of the project the client holds
SettingsOfProject ==
    IF ~Truthy(project)
    THEN /\ s3_base_url = UnsetUrl /\ aws_region = "unset" /\ bucket = "unset"
    ELSE /\ HasKey(project, "config")
         /\ HasKey(project.config, "s3_base_url")
         /\ HasKey(project.config, "aws_region")
         /\ s3_base_url = project.config.s3_base_url
         /\ aws_region = project.config.aws_region
         /\ bucket = BucketOf(project.config.s3_base_url)

\* C30: a set_project call that raises (HTTP error status, a response with
\* success = false, or a project record lacking config.s3_base_url or
\* config.aws_region) leaves the client's project, s3_base_url, aws_region
\* and bucket exactly as they were before the call, so the client never holds
\* a project together with the storage settings of another project.
C30_FailedSetProjectChangesNothing ==
    [][/\ (op' = "set_project" /\ raised') => settings' = settings
       /\ SettingsOfProject']_vars

\* project A set, then a record of project B lacking config.s3_base_url: the
\* client holds project B with the bucket and region of project A
C30_ProjectWithOtherSettings ==
    /\ SetProjectCalled /\ raised
    /\ error = KeyError("s3_base_url")
    /\ project = ProjectNoUrl
    /\ s3_base_url = ProjectA.config.s3_base_url
    /\ bucket = BucketOf(ProjectA.config.s3_base_url)

\* a record lacking config.aws_region: project and s3_base_url are the new
\* ones, region and bucket the old ones
C30_HalfUpdated ==
    /\ SetProjectCalled /\ raised
    /\ error = KeyError("aws_region")
    /\ project = ProjectNoRegion
    /\ s3_base_url = ProjectNoRegion.config.s3_base_url
    /\ bucket # BucketOf(s3_base_url)

\* an HTTP error status or success = false does leave the settings alone
C30_RejectedKeepsSettings ==
    /\ SetProjectCalled /\ raised
    /\ error.type = "ValueError"
    /\ project = ProjectA
    /\ SettingsOfProject

====
